---- MODULE Spec2Model ----
(***************************************************************************)
(* The iCal feed engine of YATWA (backend/src/services/ical.ts, here       *)
(* src/unnamed/part_015): generateCalendar, generateEvent, escapeText,     *)
(* the date formatting helpers and validateCalendar, as a state machine    *)
(* over one service instance.                                              *)
(*                                                                         *)
(* Text is a sequence of one-character strings, so that escaping,          *)
(* truncation, substring search and line splitting are computed character  *)
(* by character as the code computes them.  A Date object is its number    *)
(* of seconds since 1970-01-01T00:00:00Z (the code never reads the         *)
(* milliseconds); its local getters add the host's UTC offset, which is    *)
(* fixed for a run (no daylight-saving change on the host).                *)
(*                                                                         *)
(* TLC may evaluate an operator's argument anew at every use of the        *)
(* parameter, so the operators that use a computed argument more than      *)
(* once first bind it to its value (Bind1, Bind2, Bind3).                  *)
(***************************************************************************)
EXTENDS Integers, Sequences, FiniteSets, TLC

VARIABLES
    config,       \* ICalService.config, set by the constructor
    tzOffset,     \* the host's local UTC offset in minutes (Date's local getters)
    now,          \* the clock: what new Date() returns, seconds since the epoch
    events,       \* the event list handed to generateCalendar
    userHash,     \* the user identifier handed to generateCalendar
    icalContent,  \* the document of the last generateCalendar call, if held
    validation,   \* the last validateCalendar call on icalContent: its report
    stats,        \* the last generateStats call on events: its result
    iconTag,      \* an icon tag handed to the two icon mappings
    category,     \* the last iconToCategory call on iconTag: its result
    priority,     \* the last iconToPriority call on iconTag: its result
    request,      \* the request the feed endpoint is serving: hash, name, tz
    pc,           \* where the feed endpoint stands in serving it
    response,     \* the response the feed endpoint has returned, if any
    storage       \* the user table and the calls made on the storage

vars == <<config, tzOffset, now, events, userHash, icalContent, validation,
          stats, iconTag, category, priority, request, pc, response, storage>>

\* what the calls of the feed leave alone
statsVars == <<stats>>
iconVars == <<iconTag, category, priority>>
feedVars == <<request, pc, response, storage>>

-----------------------------------------------------------------------------
(* Call by value *)

Bind1(F(_), a) == CHOOSE r \in {F(x) : x \in {a}} : TRUE
Bind2(F(_, _), a, b) == CHOOSE r \in {F(x, y) : x \in {a}, y \in {b}} : TRUE
Bind3(F(_, _, _), a, b, c) ==
    CHOOSE r \in {F(x, y, z) : x \in {a}, y \in {b}, z \in {c}} : TRUE

-----------------------------------------------------------------------------
(* Characters and text *)

LF == "\n"
CR == "\r"
Backslash == "\\"

Min(a, b) == IF a < b THEN a ELSE b

\* Concatenation of a sequence of texts (template strings, Array.join(''),
\* Array.push(...items))
RECURSIVE Concat(_)
Concat(parts) ==
    Bind1(LAMBDA p :
            IF Len(p) = 0 THEN <<>>
            ELSE IF Len(p) = 1 THEN p[1]
            ELSE Concat(SubSeq(p, 1, Len(p) \div 2))
                 \o Concat(SubSeq(p, Len(p) \div 2 + 1, Len(p))),
          parts)

\* Array.prototype.join(sep)
Join(lines, sep) ==
    Bind2(LAMBDA ls, s :
            Concat([i \in 1..Len(ls) |-> IF i = 1 THEN ls[i] ELSE s \o ls[i]]),
          lines, sep)

\* String.prototype.substring(0, n)
Substring0(text, n) == Bind1(LAMBDA t : SubSeq(t, 1, Min(Len(t), n)), text)

\* pat occurs in text at position i (text, pat and i are values)
MatchAt(text, pat, i) ==
    /\ i + Len(pat) - 1 <= Len(text)
    /\ text[i] = pat[1]
    /\ \A j \in 1..Len(pat) : text[i + j - 1] = pat[j]

\* String.prototype.includes(pat)
Includes(text, pat) ==
    Bind2(LAMBDA t, p : \E i \in 1..Len(t) : MatchAt(t, p, i), text, pat)

\* (text.match(/pat/g) || []).length for a literal pattern no occurrence of
\* which can overlap another (true of BEGIN:VEVENT and END:VEVENT)
MatchCount(text, pat) ==
    Bind2(LAMBDA t, p : Cardinality({i \in 1..Len(t) : MatchAt(t, p, i)}), text, pat)


\* the position of the first sep in text[from..to], or to + 1 when there
\* is none (text and sep are values)
NextSep(text, sep, from, to) ==
    CHOOSE i \in from..(to + 1) :
        /\ i = to + 1 \/ text[i] = sep
        /\ \A j \in from..(i - 1) : text[j] # sep

\* the pieces of text[from..to], left to right (text and sep are values)
RECURSIVE SplitFrom(_, _, _, _)
SplitFrom(text, sep, from, to) ==
    Bind3(LAMBDA f, t, i :
            IF i = t + 1 THEN <<SubSeq(text, f, t)>>
            ELSE <<SubSeq(text, f, i - 1)>> \o SplitFrom(text, sep, i + 1, t),
          from, to, NextSep(text, sep, from, to))

\* the pieces of two adjacent stretches of a text, joined: the last piece
\* of the left stretch continues in the first piece of the right one
SplitMerge(left, right) ==
    Bind2(LAMBDA l, r :
            SubSeq(l, 1, Len(l) - 1) \o <<l[Len(l)] \o r[1]>> \o SubSeq(r, 2, Len(r)),
          left, right)

\* the pieces of text[from..to]: short stretches left to right, long ones
\* by halves (text and sep are values)
RECURSIVE SplitRange(_, _, _, _)
SplitRange(text, sep, from, to) ==
    Bind2(LAMBDA f, t :
            IF t - f < 16 THEN SplitFrom(text, sep, f, t)
            ELSE SplitMerge(SplitRange(text, sep, f, (f + t) \div 2),
                            SplitRange(text, sep, (f + t) \div 2 + 1, t)),
          from, to)

\* String.prototype.split(sep) for a one-character separator
Split(text, sep) ==
    Bind2(LAMBDA t, s :
            IF \A i \in 1..Len(t) : t[i] # s THEN <<t>>
            ELSE SplitRange(t, s, 1, Len(t)),
          text, sep)

\* String.prototype.replace(/c/g, r) for a one-character pattern c: the
\* pieces between the occurrences of c, joined by r
ReplaceAll(text, c, r) == Join(Split(text, c), r)

Digits == <<"0", "1", "2", "3", "4", "5", "6", "7", "8", "9">>
DigitChar(d) == Digits[d + 1]
DigitVal(c) == Bind1(LAMBDA ch : CHOOSE d \in 0..9 : Digits[d + 1] = ch, c)

\* String(n), `${n}` for a non-negative integer
RECURSIVE NumberToText(_)
NumberToText(n) ==
    Bind1(LAMBDA v :
            IF v < 10 THEN <<DigitChar(v)>>
            ELSE NumberToText(v \div 10) \o <<DigitChar(v % 10)>>,
          n)

\* Number(text) for a text of decimal digits
RECURSIVE TextToNumber(_)
TextToNumber(text) ==
    Bind1(LAMBDA t :
            IF Len(t) = 0 THEN 0
            ELSE 10 * TextToNumber(SubSeq(t, 1, Len(t) - 1)) + DigitVal(t[Len(t)]),
          text)

\* String.prototype.padStart(2, '0')
PadStart2(text) ==
    Bind1(LAMBDA t :
            IF Len(t) >= 2 THEN t
            ELSE IF Len(t) = 1 THEN <<"0">> \o t
            ELSE <<"0", "0">>,
          text)

-----------------------------------------------------------------------------
(* The Date object: the proleptic Gregorian calendar of ECMAScript *)

SecondsPerDay == 24 * 60 * 60

\* days from 1970-01-01 to the civil date y-m-d (d may exceed the month's
\* length: the days carry into the following months, as Date.setDate does)
DaysFromCivil(y, m, d) ==
    LET yy  == IF m <= 2 THEN y - 1 ELSE y
        era == yy \div 400
        yoe == yy - era * 400
        mp  == IF m > 2 THEN m - 3 ELSE m + 9
        doy == (153 * mp + 2) \div 5 + d - 1
        doe == yoe * 365 + yoe \div 4 - yoe \div 100 + doy
    IN  era * 146097 + doe - 719468

\* the year of the era, from the day of the era
YearOfEra(doe) == (doe - doe \div 1460 + doe \div 36524 - doe \div 146096) \div 365

\* the civil date, from the era, the year of the era and the day of the
\* year counted from 1 March
CivilFromParts(era, yoe, doy) ==
    LET mp == (5 * doy + 2) \div 153
        d  == doy - (153 * mp + 2) \div 5 + 1
        m  == IF mp < 10 THEN mp + 3 ELSE mp - 9
    IN  [year |-> yoe + era * 400 + (IF m <= 2 THEN 1 ELSE 0), month |-> m, day |-> d]

\* the civil date of day number z
CivilFromDays(z) ==
    Bind1(LAMBDA zz :
        Bind2(LAMBDA era, doe :
            Bind1(LAMBDA yoe :
                    CivilFromParts(era, yoe, doe - (365 * yoe + yoe \div 4 - yoe \div 100)),
                  YearOfEra(doe)),
            zz \div 146097, zz % 146097),
        z + 719468)

\* Date.UTC(y, m - 1, d, h, mi, s) / 1000
MakeTime(y, m, d, h, mi, s) ==
    DaysFromCivil(y, m, d) * SecondsPerDay + h * 3600 + mi * 60 + s

\* the broken-down fields of an instant of the UTC time scale
Fields(t) ==
    Bind2(LAMBDA c, sod :
            [year |-> c.year, month |-> c.month, day |-> c.day,
             hours |-> sod \div 3600, minutes |-> (sod % 3600) \div 60,
             seconds |-> sod % 60],
          CivilFromDays(t \div SecondsPerDay), t % SecondsPerDay)

\* the fields the UTC getters return (getUTCFullYear, getUTCDate, ...)
UTCFields(t) == Fields(t)

\* the fields the local getters return (getFullYear, getMonth() + 1,
\* getDate, getHours, getMinutes, getSeconds) on a host tz minutes east
LocalFields(t, tz) == Fields(t + tz * 60)

\* date.setDate(day): the local fields with the day replaced
SetDate(t, tz, day) ==
    Bind1(LAMBDA f : MakeTime(f.year, f.month, day, f.hours, f.minutes, f.seconds),
          LocalFields(t, tz)) - tz * 60

\* date.setUTCDate(day)
SetUTCDate(t, day) ==
    Bind1(LAMBDA f : MakeTime(f.year, f.month, day, f.hours, f.minutes, f.seconds),
          UTCFields(t))

\* new Date(text) for 'YYYY-MM-DDTHH:MM:SS' (local time on the host) and
\* for 'YYYY-MM-DDTHH:MM:SS.000Z' (UTC)
ParseDate(text, tz) ==
    Bind1(LAMBDA t :
            MakeTime(TextToNumber(SubSeq(t, 1, 4)), TextToNumber(SubSeq(t, 6, 7)),
                     TextToNumber(SubSeq(t, 9, 10)), TextToNumber(SubSeq(t, 12, 13)),
                     TextToNumber(SubSeq(t, 15, 16)), TextToNumber(SubSeq(t, 18, 19)))
            - (IF t[Len(t)] = "Z" THEN 0 ELSE tz * 60),
          text)

\* 'YYYY-MM-DD' from broken-down fields
DateString(fields) ==
    Bind1(LAMBDA f :
            Concat(<<NumberToText(f.year), <<"-">>, PadStart2(NumberToText(f.month)),
                     <<"-">>, PadStart2(NumberToText(f.day))>>),
          fields)

\* date.toISOString().split('T')[0]: YYYY-MM-DD of the UTC date
ISODate(t) == DateString(UTCFields(t))

\* the UTF-16 code unit of a character of a date or a time of day
CodeUnit(c) ==
    IF c = "-" THEN 45
    ELSE IF c = "." THEN 46
    ELSE IF c = ":" THEN 58
    ELSE 48 + DigitVal(c)

\* a < b, a = b, a > b on strings, as -1, 0, 1: the first position where
\* the two differ decides, and a proper prefix is the lesser (the relational
\* operators on strings; localeCompare on texts of digits with the
\* separators at the same places)
CompareText(a, b) ==
    Bind2(LAMBDA x, y :
            IF \E i \in 1..Min(Len(x), Len(y)) : x[i] # y[i]
            THEN Bind1(LAMBDA i : IF CodeUnit(x[i]) < CodeUnit(y[i]) THEN -1 ELSE 1,
                       CHOOSE i \in 1..Min(Len(x), Len(y)) :
                           /\ x[i] # y[i]
                           /\ \A j \in 1..(i - 1) : x[j] = y[j])
            ELSE IF Len(x) < Len(y) THEN -1
            ELSE IF Len(x) > Len(y) THEN 1
            ELSE 0,
          a, b)


-----------------------------------------------------------------------------
(* Values that may be undefined (configuration fields, query parameters) *)

Undefined == [defined |-> FALSE, text |-> <<>>]
Defined(t) == [defined |-> TRUE, text |-> t]

\* `${v}` in a template string
Str(v) == IF v.defined THEN v.text ELSE <<"u", "n", "d", "e", "f", "i", "n", "e", "d">>

\* process.env.APP_URL of the backend container (docker-compose: http://localhost)
EnvAppUrl == <<"h", "t", "t", "p", ":", "/", "/", "l", "o", "c", "a", "l", "h", "o", "s", "t">>

\* process.env.APP_URL || 'http://localhost'
AppUrl == IF Len(EnvAppUrl) > 0 THEN EnvAppUrl ELSE <<"h", "t", "t", "p", ":", "/", "/", "l",
        "o", "c", "a", "l", "h", "o", "s", "t">>

ConfigKeys == {"prodId", "calName", "calDescription", "timezone", "url"}

DefaultConfig ==
    [prodId         |-> Defined(<<"-", "/", "/", "Y", "A", "T", "W", "A", "/", "/", "Y", "e",
            "t", " ", "A", "n", "o", "t", "h", "e", "r", " ", "T", "r", "a", "s", "h", " ",
                    "W", "e", "b", " ", "A", "p", "p", "/", "/", "E", "N">>),
     calName        |-> Defined(<<"Y", "A", "T", "W", "A", " ", "C", "a", "l", "e", "n", "d",
             "a", "r">>),
     calDescription |-> Defined(<<"P", "e", "r", "s", "o", "n", "a", "l", " ", "c", "a", "l",
             "e", "n", "d", "a", "r", " ", "f", "r", "o", "m", " ", "Y", "A", "T", "W", "A",
                     " ", "-", " ", "Y", "e", "t", " ", "A", "n", "o", "t", "h", "e", "r", " ",
                             "T", "r", "a", "s", "h", " ", "W", "e", "b", " ", "A", "p", "p">>),
     timezone       |-> Defined(<<"E", "u", "r", "o", "p", "e", "/", "B", "e", "r", "l", "i",
             "n">>),
     url            |-> Defined(AppUrl)]

\* constructor(customConfig?): { ...defaults, ...customConfig }.  The custom
\* configuration is a function on the keys it holds; a key it holds with
\* the value undefined overrides the default with undefined.
ICalService(customConfig) ==
    [k \in ConfigKeys |->
        IF k \in DOMAIN customConfig THEN customConfig[k] ELSE DefaultConfig[k]]

\* new ICalService(): no custom configuration
NoCustomConfig == [k \in {} |-> Undefined]

\* the custom configuration the feed endpoint builds from its query
\* parameters name and tz (each a text, or absent)
FeedConfig(name, tz) ==
    [calName  |-> IF name.defined /\ Len(name.text) > 0
                  THEN Defined(<<"Y", "A", "T", "W", "A", " ", "-",
                          " ">> \o name.text) ELSE Undefined,
     timezone |-> IF tz.defined /\ Len(tz.text) > 0 THEN tz ELSE Undefined,
     url      |-> Defined(AppUrl)]

-----------------------------------------------------------------------------
(* ICalService *)

\* escapeText: the six steps in the order of the code
EscapeLimit == 1000

escapeText(text) ==
    LET s1 == ReplaceAll(text, Backslash, <<Backslash, Backslash>>)
        s2 == ReplaceAll(s1, ";", <<Backslash, ";">>)
        s3 == ReplaceAll(s2, ",", <<Backslash, ",">>)
        s4 == ReplaceAll(s3, LF, <<Backslash, "n">>)
        s5 == ReplaceAll(s4, CR, <<>>)
    IN  Substring0(s5, EscapeLimit)

\* the YYYY-MM-DD text of the local date of a Date object
LocalDateString(t, tz) == DateString(LocalFields(t, tz))

\* an event_date is a 'YYYY-MM-DD' text or a Date object
DateText(s) == [isDate |-> FALSE, text |-> s, time |-> 0]
DateObject(t) == [isDate |-> TRUE, text |-> <<>>, time |-> t]

formatDate(dateInput, tz) ==
    LET dateString == IF dateInput.isDate
                      THEN LocalDateString(dateInput.time, tz)
                      ELSE dateInput.text
    IN  ReplaceAll(dateString, "-", <<>>)

formatDateTime(date, utc, tz) ==
    Bind1(LAMBDA f :
            Concat(<<NumberToText(f.year), PadStart2(NumberToText(f.month)),
                     PadStart2(NumberToText(f.day)), <<"T">>,
                     PadStart2(NumberToText(f.hours)),
                     PadStart2(NumberToText(f.minutes)),
                     PadStart2(NumberToText(f.seconds))>>),
          LocalFields(date, tz))
    \o (IF utc THEN <<"Z">> ELSE <<>>)

combineDateTime(dateInput, timeString, tz) ==
    LET dateString == IF dateInput.isDate
                      THEN LocalDateString(dateInput.time, tz)
                      ELSE dateInput.text
    IN  ParseDate(Concat(<<dateString, <<"T">>, timeString>>), tz)

categoryMap ==
    <<  <<<<"w", "o", "r", "k">>, <<"B", "U", "S", "I", "N", "E", "S", "S">>>>,
        <<<<"m", "e", "e", "t", "i", "n", "g">>, <<"M", "E", "E", "T", "I", "N", "G">>>>,
        <<<<"b", "i", "r", "t", "h", "d", "a", "y">>, <<"P", "E", "R", "S", "O", "N", "A", "L">>>>,
        <<<<"a", "n", "n", "i", "v", "e", "r", "s", "a", "r", "y">>, <<"P", "E", "R", "S", "O",
                "N", "A", "L">>>>,
        <<<<"p", "e", "r", "s", "o", "n", "a", "l">>, <<"P", "E", "R", "S", "O", "N", "A", "L">>>>,
        <<<<"f", "a", "m", "i", "l", "y">>, <<"P", "E", "R", "S", "O", "N", "A", "L">>>>,
        <<<<"f", "r", "i", "e", "n", "d", "s">>, <<"P", "E", "R", "S", "O", "N", "A", "L">>>>,
        <<<<"h", "e", "a", "l", "t", "h">>, <<"P", "E", "R", "S", "O", "N", "A", "L">>>>,
        <<<<"t", "r", "a", "v", "e", "l">>, <<"V", "A", "C", "A", "T", "I", "O", "N">>>>,
        <<<<"v", "a", "c", "a", "t", "i", "o", "n">>, <<"V", "A", "C", "A", "T", "I", "O", "N">>>>,
        <<<<"e", "d", "u", "c", "a", "t", "i", "o", "n">>, <<"E", "D", "U", "C", "A", "T", "I",
                "O", "N">>>>,
        <<<<"s", "p", "o", "r", "t", "s">>, <<"P", "E", "R", "S", "O", "N", "A", "L">>>>,
        <<<<"e", "n", "t", "e", "r", "t", "a", "i", "n", "m", "e", "n", "t">>, <<"P", "E", "R",
                "S", "O", "N", "A", "L">>>>,
        <<<<"s", "h", "o", "p", "p", "i", "n", "g">>, <<"P", "E", "R", "S", "O", "N", "A", "L">>>>,
        <<<<"p", "r", "o", "j", "e", "c", "t">>, <<"B", "U", "S", "I", "N", "E", "S", "S">>>>,
        <<<<"t", "a", "s", "k">>, <<"B", "U", "S", "I", "N", "E", "S", "S">>>>,
        <<<<"d", "e", "a", "d", "l", "i", "n", "e">>, <<"B", "U", "S", "I", "N", "E", "S", "S">>>>,
        <<<<"c", "o", "n", "f", "e", "r", "e", "n", "c", "e">>, <<"M", "E", "E", "T", "I", "N",
                "G">>>>,
        <<<<"a", "p", "p", "o", "i", "n", "t", "m", "e", "n", "t">>, <<"A", "P", "P", "O", "I",
                "N", "T", "M", "E", "N", "T">>>>,
        <<<<"r", "e", "m", "i", "n", "d", "e", "r">>, <<"P", "E", "R", "S", "O", "N", "A", "L">>>>,
        <<<<"i", "m", "p", "o", "r", "t", "a", "n", "t">>, <<"B", "U", "S", "I", "N", "E", "S",
                "S">>>>,
        <<<<"p", "a", "r", "t", "y">>, <<"P", "E", "R", "S", "O", "N", "A", "L">>>>,
        <<<<"e", "v", "e", "n", "t">>, <<"P", "E", "R", "S", "O", "N", "A", "L">>>> >>

\* what categoryMap inherits from Object.prototype, each value as the text
\* a template string or a property key makes of it (the functions as
\* the runtime of the backend image prints them)
ObjectPrototype ==
    <<  <<<<"_", "_", "p", "r", "o", "t", "o", "_", "_">>, <<"[", "o", "b", "j", "e", "c", "t",
            " ", "O", "b", "j", "e", "c", "t", "]">>>>,
        <<<<"c", "o", "n", "s", "t", "r", "u", "c", "t", "o", "r">>, <<"f", "u", "n", "c", "t",
                "i", "o", "n", " ", "O", "b", "j", "e", "c", "t", "(", ")", " ", "{", LF, " ",
                        " ", " ", " ", "[", "n", "a", "t", "i", "v", "e", " ", "c", "o", "d",
                                "e", "]", LF, "}">>>>,
        <<<<"t", "o", "S", "t", "r", "i", "n", "g">>, <<"f", "u", "n", "c", "t", "i", "o", "n",
                " ", "t", "o", "S", "t", "r", "i", "n", "g", "(", ")", " ", "{", LF, " ", " ",
                        " ", " ", "[", "n", "a", "t", "i", "v", "e", " ", "c", "o", "d", "e",
                                "]", LF, "}">>>> >>

\* table[key], for a table of pairs that holds key
Lookup(table, key) == table[CHOOSE i \in 1..Len(table) : table[i][1] = key][2]
Has(table, key) == \E i \in 1..Len(table) : table[i][1] = key

\* categoryMap[icon] || 'PERSONAL': an own property, else an inherited one,
\* else undefined; the result as the text its uses make of it
iconToCategory(icon) ==
    Bind1(LAMBDA ic :
            IF Has(categoryMap, ic) THEN Lookup(categoryMap, ic)
            ELSE IF Has(ObjectPrototype, ic) THEN Lookup(ObjectPrototype, ic)
            ELSE <<"P", "E", "R", "S", "O", "N", "A", "L">>,
          icon)

highPriority == {<<"i", "m", "p", "o", "r", "t", "a", "n", "t">>, <<"d", "e", "a", "d", "l",
        "i", "n", "e">>, <<"w", "o", "r", "k">>, <<"m", "e", "e", "t", "i", "n", "g">>, <<"a",
                "p", "p", "o", "i", "n", "t", "m", "e", "n", "t">>}
lowPriority == {<<"e", "n", "t", "e", "r", "t", "a", "i", "n", "m", "e", "n", "t">>, <<"s",
        "h", "o", "p", "p", "i", "n", "g">>, <<"p", "a", "r", "t", "y">>}

\* a variant of iconToPriority without the low class
iconToPriorityNoLow(icon) ==
    IF icon \in highPriority THEN 1 ELSE 5

iconToPriority(icon) ==
    IF icon \in highPriority THEN 1
    ELSE IF icon \in lowPriority THEN 9
    ELSE 5

generateTimezone ==
    << <<"B", "E", "G", "I", "N", ":", "V", "T", "I", "M", "E", "Z", "O", "N", "E">>,
       <<"T", "Z", "I", "D", ":", "E", "u", "r", "o", "p", "e", "/", "B", "e", "r", "l", "i", "n">>,
       <<"B", "E", "G", "I", "N", ":", "D", "A", "Y", "L", "I", "G", "H", "T">>,
       <<"T", "Z", "O", "F", "F", "S", "E", "T", "F", "R", "O", "M", ":", "+", "0", "1", "0", "0">>,
       <<"T", "Z", "O", "F", "F", "S", "E", "T", "T", "O", ":", "+", "0", "2", "0", "0">>,
       <<"T", "Z", "N", "A", "M", "E", ":", "C", "E", "S", "T">>,
       <<"D", "T", "S", "T", "A", "R", "T", ":", "1", "9", "7", "0", "0", "3", "2", "9", "T",
               "0", "2", "0", "0", "0", "0">>,
       <<"R", "R", "U", "L", "E", ":", "F", "R", "E", "Q", "=", "Y", "E", "A", "R", "L", "Y",
               ";", "B", "Y", "M", "O", "N", "T", "H", "=", "3", ";", "B", "Y", "D", "A", "Y",
                       "=", "-", "1", "S", "U">>,
       <<"E", "N", "D", ":", "D", "A", "Y", "L", "I", "G", "H", "T">>,
       <<"B", "E", "G", "I", "N", ":", "S", "T", "A", "N", "D", "A", "R", "D">>,
       <<"T", "Z", "O", "F", "F", "S", "E", "T", "F", "R", "O", "M", ":", "+", "0", "2", "0", "0">>,
       <<"T", "Z", "O", "F", "F", "S", "E", "T", "T", "O", ":", "+", "0", "1", "0", "0">>,
       <<"T", "Z", "N", "A", "M", "E", ":", "C", "E", "T">>,
       <<"D", "T", "S", "T", "A", "R", "T", ":", "1", "9", "7", "0", "1", "0", "2", "5", "T",
               "0", "3", "0", "0", "0", "0">>,
       <<"R", "R", "U", "L", "E", ":", "F", "R", "E", "Q", "=", "Y", "E", "A", "R", "L", "Y",
               ";", "B", "Y", "M", "O", "N", "T", "H", "=", "1", "0", ";", "B", "Y", "D", "A",
                       "Y", "=", "-", "1", "S", "U">>,
       <<"E", "N", "D", ":", "S", "T", "A", "N", "D", "A", "R", "D">>,
       <<"E", "N", "D", ":", "V", "T", "I", "M", "E", "Z", "O", "N", "E">> >>

\* the DTSTART and DTEND lines of an event
eventDateLines(event, tz) ==
    IF Len(event.event_time) > 0
    THEN Bind1(LAMBDA eventDateTime :
                 << <<"D", "T", "S", "T", "A", "R", "T", ";", "T", "Z", "I", "D", "=", "E",
                         "u", "r", "o", "p", "e", "/", "B", "e", "r", "l", "i", "n", ":">>
                        \o formatDateTime(eventDateTime, FALSE, tz),
                    <<"D", "T", "E", "N", "D", ";", "T", "Z", "I", "D", "=", "E", "u", "r",
                            "o", "p", "e", "/", "B", "e", "r", "l", "i", "n", ":">>
                        \o formatDateTime(eventDateTime + 60 * 60, FALSE, tz) >>,
               combineDateTime(event.event_date, event.event_time, tz))
    ELSE Bind1(LAMBDA nextDayDate :
                 << <<"D", "T", "S", "T", "A", "R", "T", ";", "V", "A", "L", "U", "E", "=",
                         "D", "A", "T", "E", ":">> \o formatDate(event.event_date, tz),
                    <<"D", "T", "E", "N", "D", ";", "V", "A", "L", "U", "E", "=", "D", "A",
                            "T", "E", ":">> \o formatDate(DateObject(nextDayDate), tz) >>,
               IF event.event_date.isDate
               THEN SetDate(event.event_date.time, tz,
                            LocalFields(event.event_date.time, tz).day + 1)
               ELSE Bind1(LAMBDA d : SetUTCDate(d, UTCFields(d).day + 1),
                          ParseDate(event.event_date.text \o <<"T", "0", "0", ":", "0", "0",
                                  ":", "0", "0", ".", "0", "0", "0", "Z">>, tz)))

\* a variant of eventTextLines that writes a DESCRIPTION line in any case
eventTextLinesAlwaysDescribing(event) ==
    << <<"S", "U", "M", "M", "A", "R", "Y", ":">> \o escapeText(event.title),
       <<"D", "E", "S", "C", "R", "I", "P", "T", "I", "O", "N",
               ":">> \o escapeText(event.description) >>

\* the SUMMARY line and, for a non-empty description, the DESCRIPTION line
eventTextLines(event) ==
    << <<"S", "U", "M", "M", "A", "R", "Y", ":">> \o escapeText(event.title) >>
    \o (IF Len(event.description) > 0
        THEN << <<"D", "E", "S", "C", "R", "I", "P", "T", "I", "O", "N",
                ":">> \o escapeText(event.description) >>
        ELSE <<>>)

\* a uid that leaves the user out
eventUidWithoutUser(id, hash) == NumberToText(id) \o <<"@", "y", "a", "t", "w", "a", ".", "a",
        "p", "p">>

\* const uid = `${event.id}-${userHash}@yatwa.app`
eventUid(id, hash) == Concat(<<NumberToText(id), <<"-">>, hash, <<"@", "y", "a", "t", "w", "a",
        ".", "a", "p", "p">>>>)

generateEvent(cfg, event, hash, clock, tz) ==
        << <<"B", "E", "G", "I", "N", ":", "V", "E", "V", "E", "N", "T">>,
           <<"U", "I", "D", ":">> \o eventUid(event.id, hash),
           <<"D", "T", "S", "T", "A", "M", "P", ":">> \o formatDateTime(clock, TRUE, tz),
           <<"C", "R", "E", "A", "T", "E", "D", ":">> \o formatDateTime(event.created_at, TRUE, tz),
           <<"L", "A", "S", "T", "-", "M", "O", "D", "I", "F", "I", "E", "D",
                   ":">> \o formatDateTime(event.updated_at, TRUE, tz) >>
        \o eventDateLines(event, tz)
        \o eventTextLines(event)
        \o << <<"C", "A", "T", "E", "G", "O", "R", "I", "E", "S",
                ":">> \o iconToCategory(event.icon),
              <<"P", "R", "I", "O", "R", "I", "T", "Y",
                      ":">> \o NumberToText(iconToPriority(event.icon)),
              <<"S", "T", "A", "T", "U", "S", ":", "C", "O", "N", "F", "I", "R", "M", "E", "D">>,
              <<"T", "R", "A", "N", "S", "P", ":", "O", "P", "A", "Q", "U", "E">>,
              <<"C", "L", "A", "S", "S", ":", "P", "R", "I", "V", "A", "T", "E">>,
              <<"S", "E", "Q", "U", "E", "N", "C", "E", ":", "0">>,
              Concat(<<<<"U", "R", "L", ":">>, Str(cfg.url), <<"?", "h", "a", "s", "h", "=">>,
                      hash>>),
              <<"X", "-", "Y", "A", "T", "W", "A", "-", "I", "C", "O", "N", ":">> \o event.icon,
              <<"X", "-", "Y", "A", "T", "W", "A", "-", "I", "D", ":">> \o NumberToText(event.id),
              <<"E", "N", "D", ":", "V", "E", "V", "E", "N", "T">> >>

calendarHeader(cfg, hash) ==
    << <<"B", "E", "G", "I", "N", ":", "V", "C", "A", "L", "E", "N", "D", "A", "R">>,
       <<"V", "E", "R", "S", "I", "O", "N", ":", "2", ".", "0">>,
       <<"P", "R", "O", "D", "I", "D", ":">> \o Str(cfg.prodId),
       <<"C", "A", "L", "S", "C", "A", "L", "E", ":", "G", "R", "E", "G", "O", "R", "I", "A", "N">>,
       <<"M", "E", "T", "H", "O", "D", ":", "P", "U", "B", "L", "I", "S", "H">>,
       Concat(<<<<"X", "-", "W", "R", "-", "C", "A", "L", "N", "A", "M", "E", ":">>,
               Str(cfg.calName), <<" ", "-", " ">>, Substring0(hash, 8)>>),
       <<"X", "-", "W", "R", "-", "C", "A", "L", "D", "E", "S", "C",
               ":">> \o Str(cfg.calDescription),
       <<"X", "-", "W", "R", "-", "T", "I", "M", "E", "Z", "O", "N", "E",
               ":">> \o Str(cfg.timezone),
       <<"X", "-", "P", "U", "B", "L", "I", "S", "H", "E", "D", "-", "T", "T", "L", ":", "P",
               "T", "1", "H">>,
       Concat(<<<<"U", "R", "L", ":">>, Str(cfg.url), <<"/", "a", "p", "i", "/", "i", "c", "a",
               "l", "/">>, hash>>),
       <<"R", "E", "F", "R", "E", "S", "H", "-", "I", "N", "T", "E", "R", "V", "A", "L", ";",
               "V", "A", "L", "U", "E", "=", "D", "U", "R", "A", "T", "I", "O", "N", ":", "P",
                       "T", "1", "H">>,
       <<"X", "-", "W", "R", "-", "R", "E", "L", "C", "A", "L", "I", "D", ":">> \o hash >>

CRLF == <<CR, LF>>

\* a generateCalendar that leaves the timezone definition out
generateCalendarNoTimezone(cfg, evs, hash, clock, tz) ==
    LET calendarLines ==
            calendarHeader(cfg, hash)
            \o Concat([i \in 1..Len(evs) |-> generateEvent(cfg, evs[i], hash, clock, tz)])
            \o << <<"E", "N", "D", ":", "V", "C", "A", "L", "E", "N", "D", "A", "R">> >>
    IN  Join(calendarLines, CRLF) \o CRLF

\* a generateCalendar that puts each event block before the earlier ones
generateCalendarReversed(cfg, evs, hash, clock, tz) ==
    LET calendarLines ==
            calendarHeader(cfg, hash)
            \o generateTimezone
            \o Concat([i \in 1..Len(evs) |->
                          generateEvent(cfg, evs[Len(evs) + 1 - i], hash, clock, tz)])
            \o << <<"E", "N", "D", ":", "V", "C", "A", "L", "E", "N", "D", "A", "R">> >>
    IN  Join(calendarLines, CRLF) \o CRLF

\* the clock is read once for a call: the call takes less than a second
generateCalendar(cfg, evs, hash, clock, tz) ==
    LET calendarLines ==
            calendarHeader(cfg, hash)
            \o generateTimezone
            \o Concat([i \in 1..Len(evs) |-> generateEvent(cfg, evs[i], hash, clock, tz)])
            \o << <<"E", "N", "D", ":", "V", "C", "A", "L", "E", "N", "D", "A", "R">> >>
    IN  Join(calendarLines, CRLF) \o CRLF

MaxLineLength == 75

\* a variant of validationErrors that leaves the VEVENT markers uncounted
validationErrorsWithoutEvents(text, eventBegins, eventEnds) ==
    (IF ~Includes(text, <<"B", "E", "G", "I", "N", ":", "V", "C", "A", "L", "E", "N", "D", "A",
            "R">>)
     THEN << <<"M", "i", "s", "s", "i", "n", "g", " ", "V", "C", "A", "L", "E", "N", "D", "A",
             "R", " ", "b", "e", "g", "i", "n">> >> ELSE <<>>)
    \o (IF ~Includes(text, <<"E", "N", "D", ":", "V", "C", "A", "L", "E", "N", "D", "A", "R">>)
        THEN << <<"M", "i", "s", "s", "i", "n", "g", " ", "V", "C", "A", "L", "E", "N", "D",
                "A", "R", " ", "e", "n", "d">> >> ELSE <<>>)
    \o (IF ~Includes(text, <<"V", "E", "R", "S", "I", "O", "N", ":", "2", ".", "0">>)
        THEN << <<"M", "i", "s", "s", "i", "n", "g", " ", "o", "r", " ", "i", "n", "v", "a",
                "l", "i", "d", " ", "V", "E", "R", "S", "I", "O", "N">> >> ELSE <<>>)
    \o (IF ~Includes(text, <<"P", "R", "O", "D", "I", "D", ":">>)
        THEN << <<"M", "i", "s", "s", "i", "n", "g", " ", "P", "R", "O", "D", "I",
                "D">> >> ELSE <<>>)

\* the errors of validateCalendar, from the text and its two marker counts
validationErrors(text, eventBegins, eventEnds) ==
    (IF ~Includes(text, <<"B", "E", "G", "I", "N", ":", "V", "C", "A", "L", "E", "N", "D", "A",
            "R">>)
     THEN << <<"M", "i", "s", "s", "i", "n", "g", " ", "V", "C", "A", "L", "E", "N", "D", "A",
             "R", " ", "b", "e", "g", "i", "n">> >> ELSE <<>>)
    \o (IF ~Includes(text, <<"E", "N", "D", ":", "V", "C", "A", "L", "E", "N", "D", "A", "R">>)
        THEN << <<"M", "i", "s", "s", "i", "n", "g", " ", "V", "C", "A", "L", "E", "N", "D",
                "A", "R", " ", "e", "n", "d">> >> ELSE <<>>)
    \o (IF ~Includes(text, <<"V", "E", "R", "S", "I", "O", "N", ":", "2", ".", "0">>)
        THEN << <<"M", "i", "s", "s", "i", "n", "g", " ", "o", "r", " ", "i", "n", "v", "a",
                "l", "i", "d", " ", "V", "E", "R", "S", "I", "O", "N">> >> ELSE <<>>)
    \o (IF ~Includes(text, <<"P", "R", "O", "D", "I", "D", ":">>)
        THEN << <<"M", "i", "s", "s", "i", "n", "g", " ", "P", "R", "O", "D", "I",
                "D">> >> ELSE <<>>)
    \o (IF eventBegins # eventEnds
        THEN << Concat(<<<<"M", "i", "s", "m", "a", "t", "c", "h", "e", "d", " ", "V", "E",
                "V", "E", "N", "T", " ", "t", "a", "g", "s", ":", " ">>, NumberToText(eventBegins),
                         <<" ", "b", "e", "g", "i", "n", ",", " ">>, NumberToText(eventEnds),
                                 <<" ", "e", "n", "d">>>>) >>
        ELSE <<>>)

\* the k-th smallest member of a set of numbers
NthOf(set, k) == CHOOSE i \in set : Cardinality({j \in set : j < i}) = k - 1

\* the warnings of validateCalendar, from the lines of the text
validationWarnings(lines) ==
    Bind1(LAMBDA ls :
        Bind1(LAMBDA long :
                [k \in 1..Cardinality(long) |->
                    Bind1(LAMBDA n :
                            Concat(<<<<"L", "i", "n", "e", " ">>, NumberToText(n),
                                     <<" ", "e", "x", "c", "e", "e", "d", "s", " ", "7", "5",
                                             " ", "c", "h", "a", "r", "a", "c", "t", "e", "r",
                                                     "s", " ", "(">>,
                                     NumberToText(Len(ls[n])), <<")">>>>),
                          NthOf(long, k))],
              {i \in 1..Len(ls) : Len(ls[i]) > MaxLineLength}),
        lines)

\* a variant of validateCalendar in which a warning makes the text invalid
validateCalendarCountingWarnings(text) ==
    Bind1(LAMBDA t :
        Bind2(LAMBDA errors, warnings :
                [isValid |-> Len(errors) = 0 /\ Len(warnings) = 0,
                 errors |-> errors, warnings |-> warnings],
              Bind2(LAMBDA eventBegins, eventEnds :
                        validationErrors(t, eventBegins, eventEnds),
                    MatchCount(t, <<"B", "E", "G", "I", "N", ":", "V", "E", "V", "E", "N",
                            "T">>), MatchCount(t, <<"E", "N", "D", ":", "V", "E", "V", "E",
                                    "N", "T">>)),
              validationWarnings(Split(t, LF))),
        text)

validateCalendar(text) ==
    Bind1(LAMBDA t :
        Bind2(LAMBDA errors, warnings :
                [isValid |-> Len(errors) = 0, errors |-> errors, warnings |-> warnings],
              Bind2(LAMBDA eventBegins, eventEnds :
                        validationErrors(t, eventBegins, eventEnds),
                    MatchCount(t, <<"B", "E", "G", "I", "N", ":", "V", "E", "V", "E", "N",
                            "T">>), MatchCount(t, <<"E", "N", "D", ":", "V", "E", "V", "E",
                                    "N", "T">>)),
              validationWarnings(Split(t, LF))),
        text)


-----------------------------------------------------------------------------
(* generateStats *)

\* event.event_date instanceof Date ? toISOString().split('T')[0] : String(...)
eventDateText(event) ==
    IF event.event_date.isDate THEN ISODate(event.event_date.time)
    ELSE event.event_date.text

\* events.filter(event => eventDate >= today): a new array, in input order
upcomingOf(evs, today) ==
    SelectSeq(evs, LAMBDA e : CompareText(eventDateText(e), today) >= 0)

\* eventsByCategory[category] = (eventsByCategory[category] || 0) + 1 on a
\* table of pairs, a new key going to the end
addCategory(table, cat) ==
    IF Has(table, cat)
    THEN [i \in 1..Len(table) |->
            IF table[i][1] = cat THEN <<cat, table[i][2] + 1>> ELSE table[i]]
    ELSE Append(table, <<cat, 1>>)

\* events.forEach(...) over the events from position k on
RECURSIVE countCategories(_, _, _)
countCategories(evs, k, table) ==
    IF k > Len(evs) THEN table
    ELSE countCategories(evs, k + 1, addCategory(table, iconToCategory(evs[k].icon)))

\* event_time || '00:00:00'
timeOrMidnight(event) ==
    IF event.event_time = <<>> THEN <<"0", "0", ":", "0", "0", ":", "0", "0">> ELSE event.event_time

\* the comparator of the sort: dates first, times of day on equal dates
compareEvents(a, b) ==
    Bind1(LAMBDA dateCompare :
            IF dateCompare # 0 THEN dateCompare
            ELSE CompareText(timeOrMidnight(a), timeOrMidnight(b)),
          CompareText(eventDateText(a), eventDateText(b)))

\* Array.prototype.sort with the comparator: stable, so an event goes behind
\* the events already placed that do not compare greater
insertSorted(sorted, e) ==
    Bind1(LAMBDA n : SubSeq(sorted, 1, n) \o <<e>> \o SubSeq(sorted, n + 1, Len(sorted)),
          Cardinality({i \in 1..Len(sorted) : compareEvents(sorted[i], e) <= 0}))

RECURSIVE sortEvents(_, _, _)
sortEvents(evs, k, sorted) ==
    IF k > Len(evs) THEN sorted
    ELSE sortEvents(evs, k + 1, insertSorted(sorted, evs[k]))

\* a variant of generateStats that counts the categories of the upcoming
\* events only
generateStatsCountingUpcoming(evs, clock) ==
    Bind1(LAMBDA upcomingEvents :
            Bind1(LAMBDA sortedUpcoming :
                    [done |-> TRUE,
                     totalEvents |-> Len(evs),
                     upcomingEvents |-> Len(upcomingEvents),
                     eventsByCategory |-> countCategories(upcomingEvents, 1, <<>>),
                     nextEvent |-> IF Len(sortedUpcoming) > 0 THEN sortedUpcoming[1]
                                   ELSE <<>>],
                  sortEvents(upcomingEvents, 1, <<>>)),
          upcomingOf(evs, ISODate(clock)))

\* generateStats(events) at the instant clock; nextEvent is the event or
\* null (<<>>)
generateStats(evs, clock) ==
    Bind1(LAMBDA upcomingEvents :
            Bind1(LAMBDA sortedUpcoming :
                    [done |-> TRUE,
                     totalEvents |-> Len(evs),
                     upcomingEvents |-> Len(upcomingEvents),
                     eventsByCategory |-> countCategories(evs, 1, <<>>),
                     nextEvent |-> IF Len(sortedUpcoming) > 0 THEN sortedUpcoming[1]
                                   ELSE <<>>],
                  sortEvents(upcomingEvents, 1, <<>>)),
          upcomingOf(evs, ISODate(clock)))
-----------------------------------------------------------------------------
(* The inputs: the stored events of one user, the hosts, the requests *)

MaxEvents == 2
MaxTicks == 1

\* the description limit of the event API
MaxDescriptionLength == 1000

\* a description of the greatest length the event API stores, ending in a
\* backslash
LongDescription == [i \in 1..MaxDescriptionLength |->
                        IF i < MaxDescriptionLength THEN "a" ELSE Backslash]

\* the clock at the start, and the creation time of the stored events
Clock0 == MakeTime(2024, 2, 1, 12, 30, 15)
CreatedAt == MakeTime(2024, 1, 15, 8, 5, 9)

Event(id, title, date, time, icon, description) ==
    [id |-> id, title |-> title, event_date |-> date, event_time |-> time,
     icon |-> icon, description |-> description,
     created_at |-> CreatedAt, updated_at |-> CreatedAt + id]

\* null (and the empty text, alike falsy) for event_time and description
Null == <<>>

\* the events of the user the lists are drawn from, ordered neither by date
\* nor by id
StoredEvents ==
    << Event(1, <<"P", "l", "a", "n">>, DateText(<<"2", "0", "2", "4", "-", "0", "2", "-", "2",
            "9">>), Null, <<"w", "o", "r", "k">>, Null),
       Event(5, <<"P", "l", "a", "n">>, DateText(<<"2", "0", "2", "4", "-", "1", "2", "-", "3",
               "1">>), <<"2", "3", ":", "3", "0", ":", "0", "0">>, <<"c", "a", "l", "e", "n",
                       "d", "a", "r">>,
             LongDescription),
       Event(2, <<"a", "\\", "b", ";", "c", ",", "d", LF, "e", CR, "f">>, DateText(<<"2", "0",
               "2", "4", "-", "1", "2", "-", "3", "1">>), <<"2", "3", ":", "3", "0", ":", "0",
                       "0">>,
             <<"p", "a", "r", "t", "y">>, <<"x", ";", "y">>),
       Event(3, <<"B", "E", "G", "I", "N", ":", "V", "E", "V", "E", "N", "T">>,
               DateObject(MakeTime(2024, 3, 1, 0, 0, 0)), Null,
             <<"m", "e", "e", "t", "i", "n", "g">>, Null),
       Event(4, <<"P", "l", "a", "n">>, DateObject(MakeTime(2024, 3, 1, 0, 0, 0)), <<"0", "9",
               ":", "0", "0", ":", "0", "0">>,
             <<"a", "p", "p", "o", "i", "n", "t", "m", "e", "n", "t">>, <<"E", "N", "D", ":",
                     "V", "E", "V", "E", "N", "T">>),
       Event(6, <<"G", "i", "f", "t", ",", " ", "c", "a", "r", "d">>, DateText(<<"2", "0", "2",
               "4", "-", "1", "2", "-", "3", "1">>), Null, <<"b", "i", "r", "t", "h", "d", "a",
                       "y">>, Null),
       Event(12, <<"P", "l", "a", "n">>, DateText(<<"2", "0", "2", "4", "-", "0", "2", "-",
               "2", "9">>), <<"2", "3", ":", "0", "0", ":", "0", "0">>, <<"d", "e", "a", "d",
                       "l", "i", "n", "e">>,
             <<"E", "N", "D", ":", "V", "C", "A", "L", "E", "N", "D", "A", "R">>),
       Event(8, <<"P", "l", "a", "n">>, DateText(<<"2", "0", "2", "3", "-", "0", "2", "-", "2",
               "8">>), Null, <<"r", "o", "c", "k", "e", "t">>, <<"t", "w", "o", LF, "l", "i",
                       "n", "e", "s">>) >>

EventPool == {StoredEvents[i] : i \in 1..Len(StoredEvents)}

\* the n events from the one at position start on, going round
Window(start, n) ==
    [i \in 1..n |-> StoredEvents[((start + i - 2) % Len(StoredEvents)) + 1]]

\* the event lists handed to generateCalendar: at most MaxEvents events
\* that follow one another in StoredEvents
EventLists ==
    { Window(start, n) : start \in 1..Len(StoredEvents),
                         n \in 0..Min(MaxEvents, Len(StoredEvents)) }

\* user hashes (ValidationService.isValidHash: at least 16 hex digits)
UserHashes == { <<"0", "1", "2", "3", "4", "5", "6", "7", "8", "9", "a", "b", "c", "d", "e",
        "f">>, <<"0", "1", "2", "3", "4", "5", "6", "7", "8", "9", "a", "b", "c", "d", "e",
                "f", "0", "1">> }

\* the host's UTC offset in minutes: New York (EST), UTC, Berlin (CET)
HostOffsets == { -300, 0, 60 }

\* the query parameters name and tz of a feed request
FeedQueries ==
    { [name |-> Undefined, tz |-> Undefined],
      [name |-> Defined(<<"k", ";", LF, "X", "-", "Y", ":", "z">>), tz |-> Defined(<<"U", "T",
              "C">>)] }

CustomConfigs ==
    {NoCustomConfig} \cup {FeedConfig(q.name, q.tz) : q \in FeedQueries}

NotGenerated == [generated |-> FALSE, text |-> <<>>]
NotValidated == [done |-> FALSE, isValid |-> FALSE, errors |-> <<>>, warnings |-> <<>>]
NoStats == [done |-> FALSE, totalEvents |-> 0, upcomingEvents |-> 0,
            eventsByCategory |-> <<>>, nextEvent |-> <<>>]
NoIcon == <<>>

\* the feed endpoint at rest: no request, no response, no storage call
NoRequest == [hash |-> <<>>, name |-> Undefined, tz |-> Undefined]
NoResponse == [sent |-> FALSE, status |-> 0, contentType |-> <<>>, body |-> <<>>]
NoStorage == [users |-> {}, touched |-> {}, log |-> <<>>, fault |-> "none"]
FeedIdle ==
    /\ request = NoRequest
    /\ pc = "idle"
    /\ response = NoResponse
    /\ storage = NoStorage
NotMapped == [done |-> FALSE, value |-> <<>>]

-----------------------------------------------------------------------------
(* The state machine *)

Init ==
    /\ config = ICalService(NoCustomConfig)
    /\ tzOffset \in HostOffsets
    /\ now = Clock0
    /\ events \in EventLists
    /\ userHash \in UserHashes
    /\ icalContent = NotGenerated
    /\ validation = NotValidated
    /\ stats = NoStats
    /\ iconTag = NoIcon /\ category = NotMapped /\ priority = NotMapped
    /\ FeedIdle

\* new ICalService(customConfig): a fresh service has generated nothing
Construct(customConfig) ==
    /\ config' = ICalService(customConfig)
    /\ icalContent' = NotGenerated
    /\ validation' = NotValidated
    /\ UNCHANGED <<tzOffset, now, events, userHash>>
    /\ UNCHANGED <<statsVars, iconVars>>
    /\ UNCHANGED feedVars

\* a generateCalendar call that finds the list emptied by the call before
GenerateCalendarDraining ==
    /\ icalContent' = [generated |-> TRUE,
                       text |-> generateCalendar(config,
                                    IF icalContent.generated THEN <<>> ELSE events,
                                    userHash, now, tzOffset)]
    /\ validation' = NotValidated
    /\ UNCHANGED <<config, tzOffset, now, events, userHash>>
    /\ UNCHANGED <<statsVars, iconVars>>
    /\ UNCHANGED feedVars

\* icalContent = icalService.generateCalendar(events, hash)
GenerateCalendar ==
    /\ icalContent' = [generated |-> TRUE,
                       text |-> generateCalendar(config, events, userHash, now, tzOffset)]
    /\ validation' = NotValidated
    /\ UNCHANGED <<config, tzOffset, now, events, userHash>>
    /\ UNCHANGED <<statsVars, iconVars>>
    /\ UNCHANGED feedVars

\* validation = icalService.validateCalendar(icalContent)
ValidateCalendar ==
    /\ icalContent.generated
    /\ LET r == validateCalendar(icalContent.text)
       IN  validation' = [done |-> TRUE, isValid |-> r.isValid,
                          errors |-> r.errors, warnings |-> r.warnings]
    /\ UNCHANGED <<config, tzOffset, now, events, userHash, icalContent>>
    /\ UNCHANGED <<statsVars, iconVars>>
    /\ UNCHANGED feedVars

\* a second passes before the next call: the results held are those of
\* calls made at the current instant, so the earlier ones are let go
Tick ==
    /\ now < Clock0 + MaxTicks
    /\ now' = now + 1
    /\ icalContent' = NotGenerated
    /\ validation' = NotValidated
    /\ UNCHANGED <<config, tzOffset, events, userHash>>
    /\ UNCHANGED <<statsVars, iconVars>>
    /\ UNCHANGED feedVars

Next ==
    \/ \E c \in CustomConfigs : Construct(c)
    \/ GenerateCalendar
    \/ ValidateCalendar
    \/ Tick

Spec == Init /\ [][Next]_vars

-----------------------------------------------------------------------------
(* Reading a document back: its lines, its VEVENT blocks, their properties *)

\* a line without the CR that ends it
StripCR(line) ==
    IF Len(line) > 0 /\ line[Len(line)] = CR THEN SubSeq(line, 1, Len(line) - 1)
    ELSE line

\* the lines of a document: the text between its line feeds
DocLines(text) ==
    Bind1(LAMBDA ls : [i \in 1..Len(ls) |-> StripCR(ls[i])], Split(text, LF))

\* the positions of the lines that are exactly marker (lines is a value)
LinesEqual(lines, marker) == {i \in 1..Len(lines) : lines[i] = marker}

\* the least member of a non-empty set of numbers
LeastOf(set) == CHOOSE m \in set : \A x \in set : m <= x

\* the VEVENT blocks of a document, in document order: each BEGIN:VEVENT
\* line with the lines after it up to the next END:VEVENT line
EventBlocks(lines) ==
    Bind1(LAMBDA ls :
        Bind2(LAMBDA b, e :
                [k \in 1..Cardinality(b) |->
                    Bind1(LAMBDA first :
                            SubSeq(ls, first,
                                   IF \E j \in e : j > first
                                   THEN LeastOf({j \in e : j > first})
                                   ELSE Len(ls)),
                          NthOf(b, k))],
              LinesEqual(ls, <<"B", "E", "G", "I", "N", ":", "V", "E", "V", "E", "N", "T">>),
                      LinesEqual(ls, <<"E", "N", "D", ":", "V", "E", "V", "E", "N", "T">>)),
        lines)

\* the lines of a block that carry the property name (block and name are
\* values): the name, then a colon or a parameter
PropertyLines(block, name) ==
    SelectSeq(block, LAMBDA l : /\ Len(l) > Len(name)
                                /\ MatchAt(l, name, 1)
                                /\ l[Len(name) + 1] \in {":", ";"})

\* the value of a content line: what follows its first colon
LineValue(line) ==
    Bind1(LAMBDA l : SubSeq(l, NextSep(l, ":", 1, Len(l)) + 1, Len(l)), line)

\* the parameters of a content line of the property name: what stands
\* between the name and the first colon
LineParams(line, name) ==
    Bind1(LAMBDA l : SubSeq(l, Len(name) + 1, NextSep(l, ":", 1, Len(l)) - 1), line)

\* the value of the one line of block that carries name
ValueOf(block, name) == LineValue(PropertyLines(block, name)[1])

-----------------------------------------------------------------------------
(* What the claims expect: escaped text, calendar dates *)

\* the escaping of one character: backslash, semicolon and comma get a
\* backslash before them, a line feed becomes backslash-n, a carriage
\* return goes
EscapedChar(c) ==
    IF c = Backslash THEN <<Backslash, Backslash>>
    ELSE IF c = ";" THEN <<Backslash, ";">>
    ELSE IF c = "," THEN <<Backslash, ",">>
    ELSE IF c = LF THEN <<Backslash, "n">>
    ELSE IF c = CR THEN <<>>
    ELSE <<c>>

\* the escaping of a text, character by character
EscapedText(text) ==
    Bind1(LAMBDA t : Concat([i \in 1..Len(t) |-> EscapedChar(t[i])]), text)

\* the number of backslashes that stand directly before position i
BackslashRun(text, i) ==
    CHOOSE n \in 0..(i - 1) :
        /\ \A j \in 1..n : text[i - j] = Backslash
        /\ n = i - 1 \/ text[i - n - 1] # Backslash

\* a value is well escaped when it holds no line break, every semicolon
\* and comma is the second half of an escape pair, and every backslash
\* that opens a pair is followed by a backslash, semicolon, comma or n
WellEscaped(value) ==
    Bind1(LAMBDA v :
            \A i \in 1..Len(v) :
                /\ v[i] \notin {LF, CR}
                /\ v[i] \in {";", ","} => BackslashRun(v, i) % 2 = 1
                /\ (v[i] = Backslash /\ BackslashRun(v, i) % 2 = 0)
                       => (i < Len(v) /\ v[i + 1] \in {Backslash, ";", ",", "n"}),
          value)

\* the day number of the calendar date an event is stored under: the date
\* its text names, or the UTC date of its Date object (the storage hands
\* dates out as Date objects at midnight UTC)
EventDay(event) ==
    IF event.event_date.isDate THEN event.event_date.time \div SecondsPerDay
    ELSE DaysFromCivil(TextToNumber(SubSeq(event.event_date.text, 1, 4)),
                       TextToNumber(SubSeq(event.event_date.text, 6, 7)),
                       TextToNumber(SubSeq(event.event_date.text, 9, 10)))

\* the seconds into the day of a time-of-day HH:MM:SS
TimeOfDay(text) ==
    TextToNumber(SubSeq(text, 1, 2)) * 3600 + TextToNumber(SubSeq(text, 4, 5)) * 60
    + TextToNumber(SubSeq(text, 7, 8))

\* YYYYMMDD of a day number
BasicDate(day) ==
    Bind1(LAMBDA c :
            Concat(<<NumberToText(c.year), PadStart2(NumberToText(c.month)),
                     PadStart2(NumberToText(c.day))>>),
          CivilFromDays(day))

\* YYYYMMDDTHHMMSS of a day number and the seconds into it (which may run
\* into the following day)
BasicDateTime(day, seconds) ==
    Bind2(LAMBDA d, s :
            Concat(<<BasicDate(d), <<"T">>, PadStart2(NumberToText(s \div 3600)),
                     PadStart2(NumberToText((s % 3600) \div 60)),
                     PadStart2(NumberToText(s % 60))>>),
          day + seconds \div SecondsPerDay, seconds % SecondsPerDay)

-----------------------------------------------------------------------------
(* The claims *)

\* C1: the document generated from a non-empty event list holds as many
\* BEGIN:VEVENT markers as END:VEVENT markers, counted by occurrence in the
\* text, and as many as the list has events, whatever the titles and
\* descriptions hold.
C1_BalancedBlocks ==
    (icalContent.generated /\ Len(events) > 0) =>
        /\ MatchCount(icalContent.text, <<"B", "E", "G", "I", "N", ":", "V", "E", "V", "E",
                "N", "T">>) = Len(events)
        /\ MatchCount(icalContent.text, <<"E", "N", "D", ":", "V", "E", "V", "E", "N",
                "T">>) = Len(events)

\* C2: validateCalendar reports every generated document valid, with no
\* error, whatever the titles, descriptions and icons of the events hold.
C2_GeneratedIsValid ==
    validation.done => (validation.isValid /\ validation.errors = <<>>)

C4_AllDayEndsNextDay ==
    icalContent.generated =>
        Bind1(LAMBDA blocks :
                \A k \in 1..Len(events) :
                    Len(events[k].event_time) = 0 =>
                        /\ k <= Len(blocks)
                        /\ PropertyLines(blocks[k], <<"D", "T", "S", "T", "A", "R", "T">>)
                             = << <<"D", "T", "S", "T", "A", "R", "T", ";", "V", "A", "L", "U",
                                     "E", "=", "D", "A", "T", "E",
                                             ":">> \o BasicDate(EventDay(events[k])) >>
                        /\ PropertyLines(blocks[k], <<"D", "T", "E", "N", "D">>)
                             = << <<"D", "T", "E", "N", "D", ";", "V", "A", "L", "U", "E", "=",
                                     "D", "A", "T", "E", ":">>
                                    \o BasicDate(EventDay(events[k]) + 1) >>,
              EventBlocks(DocLines(icalContent.text)))

\* C5: an event with a time-of-day gets a DTSTART with a TZID parameter and
\* its own date and time-of-day, and a DTEND with the same parameter and
\* the local date and time one hour later, on the following day when the
\* start is 23:00:00 or later.
C5_TimedEndsOneHourLater ==
    icalContent.generated =>
        Bind1(LAMBDA blocks :
                \A k \in 1..Len(events) :
                    Len(events[k].event_time) > 0 =>
                        /\ k <= Len(blocks)
                        /\ Len(PropertyLines(blocks[k], <<"D", "T", "S", "T", "A", "R", "T">>)) = 1
                        /\ Len(PropertyLines(blocks[k], <<"D", "T", "E", "N", "D">>)) = 1
                        /\ Bind2(LAMBDA s, e :
                                /\ MatchAt(s, <<"D", "T", "S", "T", "A", "R", "T", ";", "T",
                                        "Z", "I", "D", "=">>, 1)
                                /\ LineParams(s, <<"D", "T", "S", "T", "A", "R",
                                        "T">>) = LineParams(e, <<"D", "T", "E", "N", "D">>)
                                /\ LineValue(s) = BasicDateTime(EventDay(events[k]),
                                                      TimeOfDay(events[k].event_time))
                                /\ LineValue(e) = BasicDateTime(EventDay(events[k]),
                                                      TimeOfDay(events[k].event_time) + 3600),
                              PropertyLines(blocks[k], <<"D", "T", "S", "T", "A", "R", "T">>)[1],
                              PropertyLines(blocks[k], <<"D", "T", "E", "N", "D">>)[1]),
              EventBlocks(DocLines(icalContent.text)))

\* C6: every VEVENT block of a generated document carries exactly one UID;
\* it is the uid of the block's event under the user, a function of the
\* event id and the user identifier alone, and no event of another id, and
\* no event under another user, has the same uid.
C6_UidPerEvent ==
    icalContent.generated =>
        Bind1(LAMBDA blocks :
                /\ \A k \in 1..Len(blocks) : Len(PropertyLines(blocks[k], <<"U", "I", "D">>)) = 1
                /\ \A k \in 1..Min(Len(blocks), Len(events)) :
                    /\ ValueOf(blocks[k], <<"U", "I", "D">>) = eventUid(events[k].id, userHash)
                    /\ \A e \in EventPool : \A h \in UserHashes :
                        (e.id # events[k].id \/ h # userHash)
                            => eventUid(e.id, h) # ValueOf(blocks[k], <<"U", "I", "D">>)
                /\ \A k \in 1..Len(blocks) : \A l \in 1..Len(blocks) :
                    k # l => ValueOf(blocks[k], <<"U", "I", "D">>) # ValueOf(blocks[l], <<"U",
                            "I", "D">>),
              EventBlocks(DocLines(icalContent.text)))

\* a document of two events was generated, with a block for each
C6_Witness ==
    /\ icalContent.generated /\ Len(events) = 2
    /\ Len(EventBlocks(DocLines(icalContent.text))) = 2

\* C7: the SUMMARY and DESCRIPTION values of every event are well escaped:
\* no bare backslash, semicolon, comma, line feed or carriage return; and
\* they are the character-by-character escaping of the title and of the
\* description, each escape made once.
C7_TextEscaped ==
    icalContent.generated =>
        Bind1(LAMBDA blocks :
                \A k \in 1..Min(Len(blocks), Len(events)) :
                    /\ Len(PropertyLines(blocks[k], <<"S", "U", "M", "M", "A", "R", "Y">>)) = 1
                    /\ WellEscaped(ValueOf(blocks[k], <<"S", "U", "M", "M", "A", "R", "Y">>))
                    /\ ValueOf(blocks[k], <<"S", "U", "M", "M", "A", "R",
                            "Y">>) = EscapedText(events[k].title)
                    /\ Len(events[k].description) > 0 =>
                        /\ Len(PropertyLines(blocks[k], <<"D", "E", "S", "C", "R", "I", "P",
                                "T", "I", "O", "N">>)) = 1
                        /\ WellEscaped(ValueOf(blocks[k], <<"D", "E", "S", "C", "R", "I", "P",
                                "T", "I", "O", "N">>))
                        /\ ValueOf(blocks[k], <<"D", "E", "S", "C", "R", "I", "P", "T", "I",
                                "O", "N">>)
                             = EscapedText(events[k].description),
              EventBlocks(DocLines(icalContent.text)))

\* C8: the calendar name, the calendar description, the timezone name and
\* the icon tag stand in the document escaped, each on the one line of its
\* property, and the configured texts add no line to the envelope.
C8_EveryTextEscaped ==
    icalContent.generated =>
        Bind1(LAMBDA ls :
                /\ Len(ls) >= 13
                /\ ls[6] = <<"X", "-", "W", "R", "-", "C", "A", "L", "N", "A", "M", "E", ":">>
                             \o EscapedText(Concat(<<Str(config.calName), <<" ", "-", " ">>,
                                                     Substring0(userHash, 8)>>))
                /\ ls[7] = <<"X", "-", "W", "R", "-", "C", "A", "L", "D", "E", "S", "C",
                        ":">> \o EscapedText(Str(config.calDescription))
                /\ ls[8] = <<"X", "-", "W", "R", "-", "T", "I", "M", "E", "Z", "O", "N", "E",
                        ":">> \o EscapedText(Str(config.timezone))
                /\ ls[13] = <<"B", "E", "G", "I", "N", ":", "V", "T", "I", "M", "E", "Z", "O",
                        "N", "E">>
                /\ Bind1(LAMBDA blocks :
                            \A k \in 1..Min(Len(blocks), Len(events)) :
                                PropertyLines(blocks[k], <<"X", "-", "Y", "A", "T", "W", "A",
                                        "-", "I", "C", "O", "N">>)
                                    = << <<"X", "-", "Y", "A", "T", "W", "A", "-", "I", "C",
                                            "O", "N", ":">> \o EscapedText(events[k].icon) >>,
                         EventBlocks(ls)),
              DocLines(icalContent.text))

\* C9: the document holds one VEVENT block per event, in the order of the
\* list: the k-th block carries the id of the k-th event in its UID and in
\* its X-YATWA-ID, and ends with the k-th END:VEVENT line.
C9_OneBlockPerEventInOrder ==
    icalContent.generated =>
        Bind1(LAMBDA ls :
            Bind1(LAMBDA blocks :
                    /\ Len(blocks) = Len(events)
                    /\ Cardinality(LinesEqual(ls, <<"E", "N", "D", ":", "V", "E", "V", "E",
                            "N", "T">>)) = Len(events)
                    /\ \A k \in 1..Len(blocks) :
                        /\ blocks[k][Len(blocks[k])] = <<"E", "N", "D", ":", "V", "E", "V",
                                "E", "N", "T">>
                        /\ PropertyLines(blocks[k], <<"X", "-", "Y", "A", "T", "W", "A", "-",
                                "I", "D">>)
                             = << <<"X", "-", "Y", "A", "T", "W", "A", "-", "I", "D",
                                     ":">> \o NumberToText(events[k].id) >>
                        /\ Len(PropertyLines(blocks[k], <<"U", "I", "D">>)) = 1
                        /\ MatchAt(ValueOf(blocks[k], <<"U", "I", "D">>),
                                   NumberToText(events[k].id) \o <<"-">>, 1),
                  EventBlocks(ls)),
            DocLines(icalContent.text))

\* a document was generated from two events of one date and time, the
\* later one in the list having the lesser id
C9_Witness ==
    /\ icalContent.generated /\ Len(events) = 2
    /\ events[1].event_date = events[2].event_date
    /\ events[1].event_time = events[2].event_time
    /\ events[1].id > events[2].id

-----------------------------------------------------------------------------
(* The icon mappings on their own: one icon tag, mapped and put in a feed *)

\* the icons the event API accepts (VALID_ICONS)
ValidIcons ==
    { <<"c", "a", "l", "e", "n", "d", "a", "r">>, <<"m", "e", "e", "t", "i", "n", "g">>, <<"b",
            "i", "r", "t", "h", "d", "a", "y">>, <<"r", "e", "m", "i", "n", "d", "e", "r">>,
                    <<"w", "o", "r", "k">>, <<"p", "e", "r", "s", "o", "n", "a", "l">>,
      <<"t", "r", "a", "v", "e", "l">>, <<"h", "e", "a", "l", "t", "h">>, <<"s", "h", "o", "p",
              "p", "i", "n", "g">>, <<"s", "p", "o", "r", "t", "s">>, <<"e", "d", "u", "c",
                      "a", "t", "i", "o", "n">>,
      <<"e", "n", "t", "e", "r", "t", "a", "i", "n", "m", "e", "n", "t">>, <<"f", "a", "m",
              "i", "l", "y">>, <<"f", "r", "i", "e", "n", "d", "s">>, <<"i", "m", "p", "o",
                      "r", "t", "a", "n", "t">>, <<"d", "e", "a", "d", "l", "i", "n", "e">>,
      <<"a", "p", "p", "o", "i", "n", "t", "m", "e", "n", "t">>, <<"e", "v", "e", "n", "t">>,
              <<"c", "o", "n", "f", "e", "r", "e", "n", "c", "e">>, <<"p", "a", "r", "t",
                      "y">>, <<"v", "a", "c", "a", "t", "i", "o", "n">>,
      <<"a", "n", "n", "i", "v", "e", "r", "s", "a", "r", "y">>, <<"p", "r", "o", "j", "e",
              "c", "t">>, <<"t", "a", "s", "k">> }

\* tags outside the vocabulary: any string may stand in the icon field of
\* an event handed to the service
UnknownIcons == { <<"r", "o", "c", "k", "e", "t">>, <<"W", "o", "r", "k">>, <<"_", "_", "p",
        "r", "o", "t", "o", "_", "_">>, <<"c", "o", "n", "s", "t", "r", "u", "c", "t", "o",
                "r">>, <<"t", "o", "S", "t", "r", "i", "n", "g">> }

IconTags == ValidIcons \cup UnknownIcons

\* an all-day event that carries the icon
IconEvent(ic) == Event(1, <<"P", "l", "a", "n">>, DateText(<<"2", "0", "2", "4", "-", "0", "2",
        "-", "2", "9">>), Null, ic, Null)

InitIcons ==
    /\ config = ICalService(NoCustomConfig)
    /\ tzOffset = 0
    /\ now = Clock0
    /\ userHash \in UserHashes
    /\ \E ic \in IconTags : iconTag = ic /\ events = <<IconEvent(ic)>>
    /\ icalContent = NotGenerated
    /\ validation = NotValidated
    /\ stats = NoStats
    /\ category = NotMapped /\ priority = NotMapped
    /\ FeedIdle

\* category = this.iconToCategory(iconTag)
IconToCategory ==
    /\ category' = [done |-> TRUE, value |-> iconToCategory(iconTag)]
    /\ UNCHANGED <<config, tzOffset, now, events, userHash, icalContent, validation,
                   stats, iconTag, priority>>
    /\ UNCHANGED feedVars

\* priority = this.iconToPriority(iconTag)
IconToPriority ==
    /\ priority' = [done |-> TRUE, value |-> iconToPriority(iconTag)]
    /\ UNCHANGED <<config, tzOffset, now, events, userHash, icalContent, validation,
                   stats, iconTag, category>>
    /\ UNCHANGED feedVars

\* a variant of GenerateStats that leaves its mark on the configuration
GenerateStatsRenaming ==
    /\ stats' = generateStats(events, now)
    /\ config' = [config EXCEPT !.calName = Defined(<<"S", "t", "a", "t", "i", "s", "t", "i",
            "c", "s">>)]
    /\ UNCHANGED <<tzOffset, now, events, userHash, icalContent, validation,
                   iconVars>>
    /\ UNCHANGED feedVars

\* a variant of GenerateStats that sorts the list it was handed
GenerateStatsSortingInPlace ==
    /\ stats' = generateStats(events, now)
    /\ events' = sortEvents(events, 1, <<>>)
    /\ UNCHANGED <<config, tzOffset, now, userHash, icalContent, validation,
                   iconVars>>
    /\ UNCHANGED feedVars

\* stats = icalService.generateStats(events)
GenerateStats ==
    /\ stats' = generateStats(events, now)
    /\ UNCHANGED <<config, tzOffset, now, events, userHash, icalContent, validation,
                   iconVars>>
    /\ UNCHANGED feedVars

NextIcons ==
    \/ IconToCategory
    \/ IconToPriority
    \/ GenerateCalendar
    \/ GenerateStats

SpecIcons == InitIcons /\ [][NextIcons]_vars

-----------------------------------------------------------------------------
(* The statistics on their own: a list of events and the clock of the call *)

MaxStatsEvents == 2

\* events of the day before, of the day and of the day after 2024-02-01,
\* with dates as strings and as Date objects at midnight UTC
StatsEvents ==
    <<  Event(21, <<"P", "l", "a", "n">>, DateText(<<"2", "0", "2", "4", "-", "0", "1", "-",
            "3", "1">>), Null, <<"w", "o", "r", "k">>, Null),
        Event(22, <<"P", "l", "a", "n">>, DateText(<<"2", "0", "2", "4", "-", "0", "2", "-",
                "0", "1">>), <<"2", "3", ":", "5", "9", ":", "0", "0">>, <<"p", "a", "r", "t",
                        "y">>, Null),
        Event(23, <<"P", "l", "a", "n">>, DateObject(MakeTime(2024, 2, 1, 0, 0, 0)), <<"0",
                "0", ":", "0", "0", ":", "0", "0">>,
              <<"b", "i", "r", "t", "h", "d", "a", "y">>, Null),
        Event(24, <<"P", "l", "a", "n">>, DateText(<<"2", "0", "2", "4", "-", "0", "2", "-",
                "0", "1">>), Null, <<"m", "e", "e", "t", "i", "n", "g">>, Null),
        Event(25, <<"P", "l", "a", "n">>, DateObject(MakeTime(2024, 2, 2, 0, 0, 0)), <<"0",
                "9", ":", "0", "0", ":", "0", "0">>,
              <<"r", "o", "c", "k", "e", "t">>, Null),
        Event(26, <<"P", "l", "a", "n">>, DateText(<<"2", "0", "2", "4", "-", "0", "2", "-",
                "0", "2">>), Null, <<"w", "o", "r", "k">>, Null),
        Event(27, <<"P", "l", "a", "n">>, DateObject(MakeTime(2023, 12, 31, 0, 0, 0)), <<"1",
                "7", ":", "0", "0", ":", "0", "0">>,
              <<"e", "d", "u", "c", "a", "t", "i", "o", "n">>, Null) >>

StatsPool == {StatsEvents[i] : i \in 1..Len(StatsEvents)}

\* the lists handed to generateStats: at most MaxStatsEvents different
\* events in any order
StatsLists ==
    UNION { {s \in [1..n -> StatsPool] : \A i, j \in 1..n : i # j => s[i] # s[j]} :
            n \in 0..MaxStatsEvents }

\* the instants of the call: the start of 2024-02-01 UTC, two o'clock,
\* half past twelve, half past eleven at night
StatsClocks ==
    { MakeTime(2024, 2, 1, 0, 0, 0), MakeTime(2024, 2, 1, 2, 0, 0), Clock0,
      MakeTime(2024, 2, 1, 23, 30, 0) }

InitStats ==
    /\ config = ICalService(NoCustomConfig)
    /\ tzOffset \in HostOffsets
    /\ now \in StatsClocks
    /\ events \in StatsLists
    /\ userHash = <<"0", "1", "2", "3", "4", "5", "6", "7", "8", "9", "a", "b", "c", "d", "e", "f">>
    /\ icalContent = NotGenerated
    /\ validation = NotValidated
    /\ stats = NoStats
    /\ iconTag = NoIcon /\ category = NotMapped /\ priority = NotMapped
    /\ FeedIdle

NextStats == GenerateStats

SpecStats == InitStats /\ [][NextStats]_vars

-----------------------------------------------------------------------------
(* The validation on its own: texts of any make handed to validateCalendar *)

\* n times the line
Repeat(line, n) == [i \in 1..n |-> line]

\* a property line of n characters
PaddedLine(n) == <<"X", "-", "P", "A", "D", ":">> \o Repeat("a", n - 6)

\* the VERSION lines of a text: none, the expected one, other values, and
\* the expected characters inside the value of another property
VersionLines ==
    { <<>>, <<<<"V", "E", "R", "S", "I", "O", "N", ":", "2", ".", "0">>>>, <<<<"V", "E", "R",
            "S", "I", "O", "N", ":", "1", ".", "0">>>>, <<<<"V", "E", "R", "S", "I", "O", "N",
                    ":", "2", ".", "0", "1">>>>,
      <<<<"X", "-", "N", "O", "T", "E", ":", "V", "E", "R", "S", "I", "O", "N", ":", "2", ".",
              "0">>>> }

ProdIdLines == { <<>>, <<<<"P", "R", "O", "D", "I", "D", ":", "-", "/", "/", "Y", "A", "T",
        "W", "A", "/", "/", "E", "N">>>> }

\* the lines between the properties and the end: events whole, half, nested
\* and backwards, and lines at and over the length limit
BodyLines ==
    { <<>>,
      <<<<"B", "E", "G", "I", "N", ":", "V", "E", "V", "E", "N", "T">>, <<"S", "U", "M", "M",
              "A", "R", "Y", ":", "P", "l", "a", "n">>, <<"E", "N", "D", ":", "V", "E", "V",
                      "E", "N", "T">>>>,
      <<<<"B", "E", "G", "I", "N", ":", "V", "E", "V", "E", "N", "T">>, <<"S", "U", "M", "M",
              "A", "R", "Y", ":", "P", "l", "a", "n">>>>,
      <<<<"S", "U", "M", "M", "A", "R", "Y", ":", "P", "l", "a", "n">>, <<"E", "N", "D", ":",
              "V", "E", "V", "E", "N", "T">>>>,
      <<<<"B", "E", "G", "I", "N", ":", "V", "E", "V", "E", "N", "T">>, <<"B", "E", "G", "I",
              "N", ":", "V", "E", "V", "E", "N", "T">>, <<"E", "N", "D", ":", "V", "E", "V",
                      "E", "N", "T">>, <<"E", "N", "D", ":", "V", "E", "V", "E", "N", "T">>>>,
      <<<<"E", "N", "D", ":", "V", "E", "V", "E", "N", "T">>, <<"B", "E", "G", "I", "N", ":",
              "V", "E", "V", "E", "N", "T">>>>,
      <<PaddedLine(MaxLineLength)>>,
      <<PaddedLine(MaxLineLength + 1)>>,
      <<PaddedLine(MaxLineLength + 1), PaddedLine(MaxLineLength + 5)>> }

\* the most envelope markers of one kind in a text
MaxMarkers == 2

\* the lines of a text: its begin markers, properties, body and end
\* markers, or the end markers first and the begin markers last
TextLines(begins, ends, endFirst, version, prodId, body) ==
    IF endFirst
    THEN Repeat(<<"E", "N", "D", ":", "V", "C", "A", "L", "E", "N", "D", "A", "R">>,
            ends) \o version \o prodId \o body
         \o Repeat(<<"B", "E", "G", "I", "N", ":", "V", "C", "A", "L", "E", "N", "D", "A",
                 "R">>, begins)
    ELSE Repeat(<<"B", "E", "G", "I", "N", ":", "V", "C", "A", "L", "E", "N", "D", "A", "R">>,
            begins) \o version \o prodId \o body
         \o Repeat(<<"E", "N", "D", ":", "V", "C", "A", "L", "E", "N", "D", "A", "R">>, ends)

LineEnds == { CRLF, <<LF>> }

\* the texts handed to validateCalendar: each line with its line end
ValidationTexts ==
    { Concat([i \in 1..Len(ls) |-> ls[i] \o eol]) :
        ls \in { TextLines(b, e, f, v, p, body) :
                   b \in 0..MaxMarkers, e \in 0..MaxMarkers, f \in BOOLEAN,
                   v \in VersionLines, p \in ProdIdLines, body \in BodyLines },
        eol \in LineEnds }

InitValidate ==
    /\ config = ICalService(NoCustomConfig)
    /\ tzOffset = 0
    /\ now = Clock0
    /\ events = <<>>
    /\ userHash = <<"0", "1", "2", "3", "4", "5", "6", "7", "8", "9", "a", "b", "c", "d", "e", "f">>
    /\ \E t \in ValidationTexts : icalContent = [generated |-> TRUE, text |-> t]
    /\ validation = NotValidated
    /\ stats = NoStats
    /\ iconTag = NoIcon /\ category = NotMapped /\ priority = NotMapped
    /\ FeedIdle

NextValidate == ValidateCalendar

SpecValidate == InitValidate /\ [][NextValidate]_vars

-----------------------------------------------------------------------------
(* The calls on one service in any order: the methods are synchronous, so
   a call runs to its end before the next one starts *)

InitCalls ==
    /\ \E c \in CustomConfigs : config = ICalService(c)
    /\ tzOffset \in HostOffsets
    /\ now = Clock0
    /\ events \in EventLists
    /\ userHash = <<"0", "1", "2", "3", "4", "5", "6", "7", "8", "9", "a", "b", "c", "d", "e", "f">>
    /\ icalContent = NotGenerated
    /\ validation = NotValidated
    /\ stats = NoStats
    /\ iconTag = NoIcon /\ category = NotMapped /\ priority = NotMapped
    /\ FeedIdle

NextCalls ==
    \/ GenerateCalendar
    \/ ValidateCalendar
    \/ GenerateStats

SpecCalls == InitCalls /\ [][NextCalls]_vars

-----------------------------------------------------------------------------
(* The feed endpoint GET /api/ical/:hash, one step per await *)

\* ValidationService.isValidHash: /^[a-f0-9]{16,}$/i on a non-empty string
HexCharacters ==
    { "0", "1", "2", "3", "4", "5", "6", "7", "8", "9",
      "a", "b", "c", "d", "e", "f", "A", "B", "C", "D", "E", "F" }

MinHashLength == 16

isValidHash(hash) ==
    /\ Len(hash) >= MinHashLength
    /\ \A i \in 1..Len(hash) : hash[i] \in HexCharacters

\* the hash of the one user of the storage, hashes of the right form that
\* no user has, and hashes of another form (too short, not hexadecimal)
KnownHash == <<"0", "1", "2", "3", "4", "5", "6", "7", "8", "9", "a", "b", "c", "d", "e", "f">>
UnknownHashes == { <<"f", "e", "d", "c", "b", "a", "9", "8", "7", "6", "5", "4", "3", "2", "1",
        "0">>, <<"0", "1", "2", "3", "4", "5", "6", "7", "8", "9", "A", "B", "C", "D", "E",
                "F", "0", "1">> }
InvalidHashes == { <<"0", "1", "2", "3", "4", "5", "6", "7", "8", "9", "a", "b", "c", "d",
        "e">>, <<"0", "1", "2", "3", "4", "5", "6", "7", "8", "9", "a", "b", "c", "d", "e", "g">> }
FeedHashes == {KnownHash} \cup UnknownHashes \cup InvalidHashes

\* the rows of the user as findByUserHash returns them, ordered by date and
\* time: among them lists with the event whose description is END:VEVENT
FeedEventLists ==
    { <<>>,
      <<StoredEvents[1]>>,
      <<StoredEvents[1], StoredEvents[7]>>,
      <<StoredEvents[4], StoredEvents[5]>>,
      <<StoredEvents[5]>> }

\* the storage call that throws, if any
StorageFaults == {"none", "exists", "updateLastAccessed", "findByUserHash"}

InitFeed ==
    /\ config = ICalService(NoCustomConfig)
    /\ tzOffset \in HostOffsets
    /\ now = Clock0
    /\ events \in FeedEventLists
    /\ \E h \in FeedHashes, q \in FeedQueries :
          /\ request = [hash |-> h, name |-> q.name, tz |-> q.tz]
          /\ userHash = h
    /\ icalContent = NotGenerated
    /\ validation = NotValidated
    /\ stats = NoStats
    /\ iconTag = NoIcon /\ category = NotMapped /\ priority = NotMapped
    /\ pc = "start"
    /\ response = NoResponse
    /\ \E f \in StorageFaults :
          storage = [users |-> {KnownHash}, touched |-> {}, log |-> <<>>, fault |-> f]

\* new Response(body, {status, headers: {'Content-Type': contentType}})
Respond(status, contentType, body) ==
    [sent |-> TRUE, status |-> status, contentType |-> contentType, body |-> body]

\* the catch block
InternalError == Respond(500, <<"t", "e", "x", "t", "/", "p", "l", "a", "i", "n">>, <<"I", "n",
        "t", "e", "r", "n", "a", "l", " ", "s", "e", "r", "v", "e", "r", " ", "e", "r", "r",
                "o", "r">>)

\* the storage after the call: the call is in the log
Called(call) == [storage EXCEPT !.log = Append(@, call)]

\* if (!ValidationService.isValidHash(hash)) return 400
FeedCheckHash ==
    /\ pc = "start"
    /\ IF ~isValidHash(request.hash)
       THEN /\ response' = Respond(400, <<"t", "e", "x", "t", "/", "p", "l", "a", "i", "n">>,
               <<"I", "n", "v", "a", "l", "i", "d", " ", "h", "a", "s", "h", " ", "f", "o",
                       "r", "m", "a", "t">>)
            /\ pc' = "done"
       ELSE /\ pc' = "exists"
            /\ UNCHANGED response
    /\ UNCHANGED <<config, tzOffset, now, events, userHash, icalContent, validation,
                   statsVars, iconVars, request, storage>>

\* const userExists = await userModel.exists(hash); if (!userExists) return 404
FeedUserExists ==
    /\ pc = "exists"
    /\ storage' = Called("exists")
    /\ IF storage.fault = "exists"
       THEN response' = InternalError /\ pc' = "done"
       ELSE IF request.hash \notin storage.users
       THEN /\ response' = Respond(404, <<"t", "e", "x", "t", "/", "p", "l", "a", "i", "n">>,
               <<"C", "a", "l", "e", "n", "d", "a", "r", " ", "n", "o", "t", " ", "f", "o",
                       "u", "n", "d">>)
            /\ pc' = "done"
       ELSE /\ pc' = "touch"
            /\ UNCHANGED response
    /\ UNCHANGED <<config, tzOffset, now, events, userHash, icalContent, validation,
                   statsVars, iconVars, request>>

\* await userModel.updateLastAccessed(hash)
FeedUpdateLastAccessed ==
    /\ pc = "touch"
    /\ IF storage.fault = "updateLastAccessed"
       THEN /\ storage' = Called("updateLastAccessed")
            /\ response' = InternalError
            /\ pc' = "done"
       ELSE /\ storage' = [Called("updateLastAccessed") EXCEPT
                              !.touched = @ \cup (storage.users \cap {request.hash})]
            /\ pc' = "events"
            /\ UNCHANGED response
    /\ UNCHANGED <<config, tzOffset, now, events, userHash, icalContent, validation,
                   statsVars, iconVars, request>>

\* const events = await eventModel.findByUserHash(hash, {limit: 1000})
FeedFindEvents ==
    /\ pc = "events"
    /\ storage' = Called("findByUserHash")
    /\ IF storage.fault = "findByUserHash"
       THEN response' = InternalError /\ pc' = "done"
       ELSE pc' = "build" /\ UNCHANGED response
    /\ UNCHANGED <<config, tzOffset, now, events, userHash, icalContent, validation,
                   statsVars, iconVars, request>>

\* a variant of FeedRespond that sends the document unvalidated
FeedRespondUnchecked ==
    /\ pc = "build"
    /\ config' = ICalService(FeedConfig(request.name, request.tz))
    /\ icalContent' = [generated |-> TRUE,
                       text |-> generateCalendar(config', events, request.hash, now,
                                                 tzOffset)]
    /\ LET r == validateCalendar(icalContent'.text)
       IN  validation' = [done |-> TRUE, isValid |-> r.isValid,
                          errors |-> r.errors, warnings |-> r.warnings]
    /\ response' = Respond(200, <<"t", "e", "x", "t", "/", "c", "a", "l", "e", "n", "d", "a",
            "r", ";", " ", "c", "h", "a", "r", "s", "e", "t", "=", "u", "t", "f", "-", "8">>,
                    icalContent'.text)
    /\ pc' = "done"
    /\ UNCHANGED <<tzOffset, now, events, userHash, statsVars, iconVars, request,
                   storage>>

\* the rest of the handler, without await: build the service from the query
\* parameters, generate, validate, and answer 500 or 200
FeedRespond ==
    /\ pc = "build"
    /\ config' = ICalService(FeedConfig(request.name, request.tz))
    /\ icalContent' = [generated |-> TRUE,
                       text |-> generateCalendar(config', events, request.hash, now,
                                                 tzOffset)]
    /\ LET r == validateCalendar(icalContent'.text)
       IN  validation' = [done |-> TRUE, isValid |-> r.isValid,
                          errors |-> r.errors, warnings |-> r.warnings]
    /\ response' = IF ~validation'.isValid
                   THEN Respond(500, <<"t", "e", "x", "t", "/", "p", "l", "a", "i", "n">>,
                           <<"C", "a", "l", "e", "n", "d", "a", "r", " ", "g", "e", "n", "e",
                                   "r", "a", "t", "i", "o", "n", " ", "f", "a", "i", "l", "e",
                                           "d">>)
                   ELSE Respond(200, <<"t", "e", "x", "t", "/", "c", "a", "l", "e", "n", "d",
                           "a", "r", ";", " ", "c", "h", "a", "r", "s", "e", "t", "=", "u",
                                   "t", "f", "-", "8">>, icalContent'.text)
    /\ pc' = "done"
    /\ UNCHANGED <<tzOffset, now, events, userHash, statsVars, iconVars, request,
                   storage>>

NextFeed ==
    \/ FeedCheckHash
    \/ FeedUserExists
    \/ FeedUpdateLastAccessed
    \/ FeedFindEvents
    \/ FeedRespond

SpecFeed == InitFeed /\ [][NextFeed]_vars

-----------------------------------------------------------------------------
(* The claims on the icon mappings *)

\* the fixed set of categories
Categories ==
    { <<"B", "U", "S", "I", "N", "E", "S", "S">>, <<"M", "E", "E", "T", "I", "N", "G">>, <<"P",
            "E", "R", "S", "O", "N", "A", "L">>, <<"V", "A", "C", "A", "T", "I", "O", "N">>,
                    <<"E", "D", "U", "C", "A", "T", "I", "O", "N">>,
      <<"A", "P", "P", "O", "I", "N", "T", "M", "E", "N", "T">> }

\* C11: for every icon tag, of the vocabulary or not, iconToCategory
\* returns a member of the fixed set of categories, PERSONAL for a tag that
\* is no key of the table, and the CATEGORIES line of an event with the
\* icon and the keys of eventsByCategory are members of the set.
C11_CategoryTotal ==
    /\ category.done =>
        /\ category.value \in Categories
        /\ ~Has(categoryMap, iconTag) => category.value = <<"P", "E", "R", "S", "O", "N", "A", "L">>
    /\ icalContent.generated =>
        Bind1(LAMBDA blocks :
                /\ Len(blocks) = 1
                /\ Len(PropertyLines(blocks[1], <<"C", "A", "T", "E", "G", "O", "R", "I", "E",
                        "S">>)) = 1
                /\ ValueOf(blocks[1], <<"C", "A", "T", "E", "G", "O", "R", "I", "E",
                        "S">>) \in Categories,
              EventBlocks(DocLines(icalContent.text)))
    /\ stats.done =>
        \A k \in 1..Len(stats.eventsByCategory) :
            stats.eventsByCategory[k][1] \in Categories

\* the priority classes as the claim lists them
HighPriorityIcons ==
    { <<"i", "m", "p", "o", "r", "t", "a", "n", "t">>, <<"d", "e", "a", "d", "l", "i", "n",
            "e">>, <<"w", "o", "r", "k">>, <<"m", "e", "e", "t", "i", "n", "g">>, <<"a", "p",
                    "p", "o", "i", "n", "t", "m", "e", "n", "t">> }
LowPriorityIcons == { <<"e", "n", "t", "e", "r", "t", "a", "i", "n", "m", "e", "n", "t">>,
        <<"s", "h", "o", "p", "p", "i", "n", "g">>, <<"p", "a", "r", "t", "y">> }
ExpectedPriority(tag) ==
    IF tag \in HighPriorityIcons THEN 1
    ELSE IF tag \in LowPriorityIcons THEN 9
    ELSE 5

\* C12: iconToPriority returns 1 exactly for the high-priority icons, 9
\* exactly for the low-priority icons and 5 for every other tag, unknown
\* ones included; the VEVENT block of an event carries exactly one PRIORITY
\* line, whose value is that number.
C12_PriorityPartition ==
    /\ priority.done => priority.value = ExpectedPriority(iconTag)
    /\ icalContent.generated =>
        Bind1(LAMBDA blocks :
                /\ Len(blocks) = 1
                /\ Len(PropertyLines(blocks[1], <<"P", "R", "I", "O", "R", "I", "T", "Y">>)) = 1
                /\ ValueOf(blocks[1], <<"P", "R", "I", "O", "R", "I", "T", "Y">>)
                       = NumberToText(ExpectedPriority(iconTag))
                /\ ExpectedPriority(iconTag) \in {1, 5, 9},
              EventBlocks(DocLines(icalContent.text)))

\* a low-priority icon mapped and put in a feed
C12_Witness ==
    /\ iconTag = <<"p", "a", "r", "t", "y">>
    /\ priority.done /\ priority.value = 9
    /\ icalContent.generated

-----------------------------------------------------------------------------
(* The claims on the statistics *)

\* the day number of the current calendar date on the host
Today == (now + tzOffset * 60) \div SecondsPerDay

\* the positions of the events dated today or later
UpcomingPositions == {i \in 1..Len(events) : EventDay(events[i]) >= Today}

\* C13: upcomingEvents is the number of events whose calendar date is today
\* or later, whatever their time of day and the time of day of the call,
\* for dates given as strings and as Date objects; an event dated
\* yesterday does not count.
C13_UpcomingCount ==
    stats.done => stats.upcomingEvents = Cardinality(UpcomingPositions)

\* the sum of the counts of a table of pairs from position k on
RECURSIVE SumCounts(_, _)
SumCounts(table, k) ==
    IF k > Len(table) THEN 0 ELSE table[k][2] + SumCounts(table, k + 1)

\* C14: totalEvents is the length of the input list; eventsByCategory holds,
\* for each category some event's icon maps to under iconToCategory (the
\* function that writes the CATEGORIES line), the number of input events,
\* past and upcoming alike, that map to it; the counts sum to totalEvents
\* and no category stands with count zero.
C14_TotalsAndCategories ==
    stats.done =>
        Bind1(LAMBDA table :
                /\ stats.totalEvents = Len(events)
                /\ \A k \in 1..Len(table) :
                    /\ table[k][2] > 0
                    /\ table[k][2] = Cardinality({i \in 1..Len(events) :
                                        iconToCategory(events[i].icon) = table[k][1]})
                    /\ \A l \in 1..Len(table) : l # k => table[l][1] # table[k][1]
                /\ \A i \in 1..Len(events) : Has(table, iconToCategory(events[i].icon))
                /\ SumCounts(table, 1) = stats.totalEvents,
              stats.eventsByCategory)

\* a past and an upcoming event of one category, counted together
C14_Witness ==
    /\ stats.done
    /\ Len(events) = 2
    /\ stats.upcomingEvents = 1
    /\ stats.eventsByCategory = << <<<<"B", "U", "S", "I", "N", "E", "S", "S">>, 2>> >>

\* the seconds into the day an event starts at, an event without a time of
\* day at midnight
StartOfEvent(event) ==
    IF event.event_time = Null THEN 0 ELSE TimeOfDay(event.event_time)

\* C15: nextEvent is null exactly when no input event is upcoming, that is
\* when upcomingEvents is 0; otherwise it is an input event that is upcoming
\* and no other upcoming event has an earlier date, nor the same date with
\* an earlier time of day.
C15_NextEventEarliest ==
    stats.done =>
        /\ stats.nextEvent = Null <=> UpcomingPositions = {}
        /\ stats.nextEvent = Null <=> stats.upcomingEvents = 0
        /\ stats.nextEvent # Null =>
            \E i \in UpcomingPositions :
                /\ events[i] = stats.nextEvent
                /\ \A j \in UpcomingPositions :
                    \/ EventDay(events[j]) > EventDay(events[i])
                    \/ /\ EventDay(events[j]) = EventDay(events[i])
                       /\ StartOfEvent(events[j]) >= StartOfEvent(events[i])

\* C16: on the date of nextEvent an event without a time of day goes before
\* every timed event, one at 00:00:00 included, whatever the order of the
\* input list, and of the timed events the earlier goes first.
C16_AllDayFirst ==
    (stats.done /\ stats.nextEvent # Null) =>
        \A i \in 1..Len(events) :
            EventDay(events[i]) = EventDay(stats.nextEvent) =>
                /\ events[i].event_time = Null => stats.nextEvent.event_time = Null
                /\ (events[i].event_time # Null /\ stats.nextEvent.event_time # Null)
                       => TimeOfDay(stats.nextEvent.event_time)
                              <= TimeOfDay(events[i].event_time)

-----------------------------------------------------------------------------
(* The claims on the validation *)

\* C17: for every text validateCalendar returns isValid = true exactly when
\* its list of errors is empty; the warnings play no part, so a text with
\* over-long lines and no error is valid.
C17_ValidIffNoErrors ==
    validation.done => (validation.isValid <=> validation.errors = <<>>)

\* a text with two over-long lines and no error, found valid
C17_Witness ==
    /\ validation.done
    /\ validation.isValid
    /\ Len(validation.warnings) = 2

\* a generated document without its last line, END:VCALENDAR and the line
\* end behind it
WithoutCalendarEnd(text) ==
    SubSeq(text, 1, Len(text) - Len(<<"E", "N", "D", ":", "V", "C", "A", "L", "E", "N", "D",
            "A", "R">> \o CRLF))

\* C18: a generated document, whatever its events hold, with its trailing
\* END:VCALENDAR line taken off is found invalid by validateCalendar, with
\* the error 'Missing VCALENDAR end'.
C18_MissingEndReported ==
    icalContent.generated =>
        Bind1(LAMBDA report :
                /\ ~report.isValid
                /\ \E k \in 1..Len(report.errors) :
                       report.errors[k] = <<"M", "i", "s", "s", "i", "n", "g", " ", "V", "C",
                               "A", "L", "E", "N", "D", "A", "R", " ", "e", "n", "d">>,
              validateCalendar(WithoutCalendarEnd(icalContent.text)))

\* whether the report of the last validateCalendar call holds the error
Reported(message) ==
    \E k \in 1..Len(validation.errors) : validation.errors[k] = message

EnvelopeErrorReported ==
    Reported(<<"M", "i", "s", "s", "i", "n", "g", " ", "V", "C", "A", "L", "E", "N", "D", "A",
            "R", " ", "b", "e", "g", "i", "n">>) \/ Reported(<<"M", "i", "s", "s", "i", "n",
                    "g", " ", "V", "C", "A", "L", "E", "N", "D", "A", "R", " ", "e", "n", "d">>)

\* C19: validateCalendar reports an envelope error for every text in which
\* BEGIN:VCALENDAR is absent, END:VCALENDAR is absent, or the two do not
\* pair up (the end before the begin, or unequal numbers of the two), and
\* none when exactly one BEGIN:VCALENDAR line precedes exactly one
\* END:VCALENDAR line.
C19_EnvelopeChecked ==
    validation.done =>
        Bind2(LAMBDA b, e :
                /\ (\/ b = {} \/ e = {}
                    \/ Cardinality(b) # Cardinality(e)
                    \/ LeastOf(e) < LeastOf(b)) => EnvelopeErrorReported
                /\ (/\ Cardinality(b) = 1 /\ Cardinality(e) = 1
                    /\ LeastOf(b) < LeastOf(e)) => ~EnvelopeErrorReported,
              LinesEqual(DocLines(icalContent.text), <<"B", "E", "G", "I", "N", ":", "V", "C",
                      "A", "L", "E", "N", "D", "A", "R">>),
              LinesEqual(DocLines(icalContent.text), <<"E", "N", "D", ":", "V", "C", "A", "L",
                      "E", "N", "D", "A", "R">>))

\* C20: validateCalendar reports 'Missing or invalid VERSION' for every
\* text without a line VERSION:2.0, be it that the text has no VERSION line,
\* that the value is another one (1.0, 2.01), or that the characters
\* VERSION:2.0 stand only inside the value of another property.
C20_VersionChecked ==
    validation.done =>
        (LinesEqual(DocLines(icalContent.text), <<"V", "E", "R", "S", "I", "O", "N", ":", "2",
                ".", "0">>) = {}
            => Reported(<<"M", "i", "s", "s", "i", "n", "g", " ", "o", "r", " ", "i", "n", "v",
                    "a", "l", "i", "d", " ", "V", "E", "R", "S", "I", "O", "N">>))

\* the number of places of the text of the last call where the marker stands
MarkersInText(marker) ==
    Cardinality({i \in 1..Len(icalContent.text) : MatchAt(icalContent.text, marker, i)})

MismatchReported ==
    \E k \in 1..Len(validation.errors) :
        MatchAt(validation.errors[k], <<"M", "i", "s", "m", "a", "t", "c", "h", "e", "d", " ",
                "V", "E", "V", "E", "N", "T", " ", "t", "a", "g", "s">>, 1)

\* C21: validateCalendar reports a 'Mismatched VEVENT tags' error exactly
\* when the number of BEGIN:VEVENT markers in the text differs from the
\* number of END:VEVENT markers; the order and
\* the nesting of the markers play no part.
C21_EventMarkersCounted ==
    validation.done =>
        (MismatchReported
            <=> MarkersInText(<<"B", "E", "G", "I", "N", ":", "V", "E", "V", "E", "N",
                    "T">>) # MarkersInText(<<"E", "N", "D", ":", "V", "E", "V", "E", "N", "T">>))

\* a text whose only event markers are an end followed by a begin, passed
\* without the error
C21_Witness ==
    /\ validation.done
    /\ ~MismatchReported
    /\ Includes(icalContent.text, <<"E", "N", "D", ":", "V", "E", "V", "E", "N",
            "T">> \o CRLF \o <<"B", "E", "G", "I", "N", ":", "V", "E", "V", "E", "N", "T">>)
    /\ MarkersInText(<<"B", "E", "G", "I", "N", ":", "V", "E", "V", "E", "N", "T">>) = 1

\* C22: validateCalendar gives one warning for each line whose length,
\* its CRLF line end not counted, exceeds 75 characters and none for any
\* other line: a line of exactly 75 characters of a CRLF-ended text gets no
\* warning, a line of 76 characters gets one.
C22_LongLinesWarned ==
    validation.done =>
        Bind1(LAMBDA lines :
                Len(validation.warnings)
                    = Cardinality({i \in 1..Len(lines) : Len(lines[i]) > MaxLineLength}),
              DocLines(icalContent.text))

-----------------------------------------------------------------------------
(* The claims on the configuration *)

\* the fields a configuration must give a value to
RequiredFields == {"prodId", "calName", "timezone", "url"}

WellFormedConfig(cfg) ==
    \A k \in RequiredFields : cfg[k].defined /\ Len(cfg[k].text) > 0

\* C23: a service built from a configuration with a required field (product
\* id, calendar name, timezone, base URL) empty or undefined fails at
\* construction, so no document ever comes from such a configuration.
C23_MalformedConfigRejected ==
    icalContent.generated => WellFormedConfig(config)

\* the configuration of the feed endpoint asked without name and tz
PlainFeedConfig == ICalService(FeedConfig(Undefined, Undefined))

\* C24: a configuration field the caller supplies no value for falls back
\* to its default: the document of a service built without configuration,
\* or by the feed endpoint asked without name and tz, has an X-WR-CALNAME
\* that starts with 'YATWA Calendar' and the X-WR-TIMEZONE 'Europe/Berlin'.
C24_DefaultsApply ==
    (icalContent.generated /\ config \in {ICalService(NoCustomConfig), PlainFeedConfig})
        => Bind1(LAMBDA lines :
                    /\ \E i \in 1..Len(lines) :
                           MatchAt(lines[i], <<"X", "-", "W", "R", "-", "C", "A", "L", "N",
                                   "A", "M", "E", ":", "Y", "A", "T", "W", "A", " ", "C", "a",
                                           "l", "e", "n", "d", "a", "r">>, 1)
                    /\ LinesEqual(lines, <<"X", "-", "W", "R", "-", "T", "I", "M", "E", "Z",
                            "O", "N", "E", ":", "E", "u", "r", "o", "p", "e", "/", "B", "e",
                                    "r", "l", "i", "n">>) # {},
                 DocLines(icalContent.text))

\* the parameters a DTSTART or DTEND line of a document may carry when its
\* timezone is tzid
DateLineParams(tzid) == { <<";", "V", "A", "L", "U", "E", "=", "D", "A", "T", "E">>, <<";",
        "T", "Z", "I", "D", "=">> \o tzid }

\* C25: a generated document names the configured timezone throughout: in
\* X-WR-TIMEZONE, as TZID of its one VTIMEZONE block, and as TZID of DTSTART
\* and DTEND of every timed event, also when the configuration overrides
\* the default Europe/Berlin.
C25_OneTimezone ==
    icalContent.generated =>
        Bind2(LAMBDA lines, tzid :
                /\ LinesEqual(lines, <<"X", "-", "W", "R", "-", "T", "I", "M", "E", "Z", "O",
                        "N", "E", ":">> \o tzid) # {}
                /\ Cardinality(LinesEqual(lines, <<"B", "E", "G", "I", "N", ":", "V", "T", "I",
                        "M", "E", "Z", "O", "N", "E">>)) = 1
                /\ {i \in 1..Len(lines) : MatchAt(lines[i], <<"T", "Z", "I", "D", ":">>, 1)}
                       = LinesEqual(lines, <<"T", "Z", "I", "D", ":">> \o tzid)
                /\ Cardinality(LinesEqual(lines, <<"T", "Z", "I", "D", ":">> \o tzid)) = 1
                /\ \A i \in 1..Len(lines) :
                    /\ MatchAt(lines[i], <<"D", "T", "S", "T", "A", "R", "T", ";">>, 1)
                           => LineParams(lines[i], <<"D", "T", "S", "T", "A", "R",
                                   "T">>) \in DateLineParams(tzid)
                    /\ MatchAt(lines[i], <<"D", "T", "E", "N", "D", ";">>, 1)
                           => LineParams(lines[i], <<"D", "T", "E", "N",
                                   "D">>) \in DateLineParams(tzid),
              DocLines(icalContent.text), Str(config.timezone))

-----------------------------------------------------------------------------
(* The claims on the calls as a whole *)

\* the report validateCalendar returns for the text when run alone
ReportAlone(text) ==
    Bind1(LAMBDA r : [done |-> TRUE, isValid |-> r.isValid, errors |-> r.errors,
                      warnings |-> r.warnings],
          validateCalendar(text))

WithoutCR(text) == SelectSeq(text, LAMBDA c : c # CR)

\* the text an escaped value stands for: a backslash that opens a pair goes
\* and the character behind it stays, an n as a line feed
Unescaped(value) ==
    Bind1(LAMBDA v :
            Concat([i \in 1..Len(v) |->
                      IF BackslashRun(v, i) % 2 = 1
                      THEN (IF v[i] = "n" THEN <<LF>> ELSE <<v[i]>>)
                      ELSE IF v[i] = Backslash THEN <<>>
                      ELSE <<v[i]>>]),
          value)

\* the texts generateCalendar hands to escapeText
TextsOfEvents ==
    {events[i].title : i \in 1..Len(events)}
        \cup {events[i].description : i \in 1..Len(events)}

\* C27: cutting the escaped text to 1000 characters keeps it well formed:
\* the result of escapeText does not end in an odd run of backslashes (the
\* first half of a pair), it is the escaping of a prefix of the input
\* without its carriage returns, and when the escaped form has at most 1000
\* characters un-escaping it gives the input without its carriage returns.
C27_TruncationWellFormed ==
    icalContent.generated =>
        \A text \in TextsOfEvents :
            Bind2(LAMBDA out, in :
                    /\ BackslashRun(out, Len(out) + 1) % 2 = 0
                    /\ Len(EscapedText(in)) <= EscapeLimit => Unescaped(out) = in
                    /\ \E n \in 0..Len(in) : out = EscapedText(SubSeq(in, 1, n)),
                  escapeText(text), WithoutCR(text))

\* C28: generateCalendar and generateStats leave the list they are handed
\* as it was: the same length, the same order, the same records with the
\* same fields; the sort for nextEvent and the next-day computation of the
\* all-day events work on copies.
C28_InputUnchanged ==
    [][ (icalContent' # icalContent \/ stats' # stats) => events' = events ]_vars

\* both calls made on a list that is out of date order and holds an all-day
\* event with a Date object
C28_Witness ==
    /\ icalContent.generated
    /\ stats.done
    /\ Len(events) = 2
    /\ events[1].id = 2 /\ events[2].id = 3
    /\ events[2].event_date.isDate /\ events[2].event_time = Null

\* the properties every VEVENT block carries once
FixedProperties ==
    { <<"U", "I", "D">>, <<"D", "T", "S", "T", "A", "M", "P">>, <<"C", "R", "E", "A", "T", "E",
            "D">>, <<"L", "A", "S", "T", "-", "M", "O", "D", "I", "F", "I", "E", "D">>, <<"D",
                    "T", "S", "T", "A", "R", "T">>, <<"D", "T", "E", "N", "D">>,
      <<"S", "U", "M", "M", "A", "R", "Y">>, <<"C", "A", "T", "E", "G", "O", "R", "I", "E",
              "S">>, <<"P", "R", "I", "O", "R", "I", "T", "Y">>, <<"S", "T", "A", "T", "U",
                      "S">>, <<"T", "R", "A", "N", "S", "P">>, <<"C", "L", "A", "S", "S">>,
      <<"S", "E", "Q", "U", "E", "N", "C", "E">>, <<"U", "R", "L">>, <<"X", "-", "Y", "A", "T",
              "W", "A", "-", "I", "C", "O", "N">>, <<"X", "-", "Y", "A", "T", "W", "A", "-",
                      "I", "D">> }

\* the lines every VEVENT block carries as they stand
FixedLines ==
    { <<"S", "T", "A", "T", "U", "S", ":", "C", "O", "N", "F", "I", "R", "M", "E", "D">>,
            <<"T", "R", "A", "N", "S", "P", ":", "O", "P", "A", "Q", "U", "E">>, <<"C", "L",
                    "A", "S", "S", ":", "P", "R", "I", "V", "A", "T", "E">>, <<"S", "E", "Q",
                            "U", "E", "N", "C", "E", ":", "0">> }

\* the parameters of the one line of block that carries name
ParamsOf(block, name) == LineParams(PropertyLines(block, name)[1], name)

\* C29: every VEVENT block of a generated document has one line each of
\* UID, DTSTAMP, CREATED, LAST-MODIFIED, DTSTART, DTEND, SUMMARY, CATEGORIES,
\* PRIORITY, STATUS:CONFIRMED, TRANSP:OPAQUE, CLASS:PRIVATE, SEQUENCE:0, URL,
\* X-YATWA-ICON and X-YATWA-ID; a DESCRIPTION line exactly when the event has
\* a non-empty description; DTSTART and DTEND both VALUE=DATE for an event
\* without time and both TZID-qualified for an event with time.
C29_FixedShape ==
    icalContent.generated =>
        Bind1(LAMBDA blocks :
                /\ Len(blocks) = Len(events)
                /\ \A k \in 1..Len(blocks) :
                    /\ \A name \in FixedProperties :
                           Len(PropertyLines(blocks[k], name)) = 1
                    /\ \A line \in FixedLines : LinesEqual(blocks[k], line) # {}
                    /\ Len(PropertyLines(blocks[k], <<"D", "E", "S", "C", "R", "I", "P", "T",
                            "I", "O", "N">>))
                           = (IF Len(events[k].description) > 0 THEN 1 ELSE 0)
                    /\ IF events[k].event_time = Null
                       THEN /\ ParamsOf(blocks[k], <<"D", "T", "S", "T", "A", "R",
                               "T">>) = <<";", "V", "A", "L", "U", "E", "=", "D", "A", "T", "E">>
                            /\ ParamsOf(blocks[k], <<"D", "T", "E", "N", "D">>) = <<";", "V",
                                    "A", "L", "U", "E", "=", "D", "A", "T", "E">>
                       ELSE /\ MatchAt(ParamsOf(blocks[k], <<"D", "T", "S", "T", "A", "R",
                               "T">>), <<";", "T", "Z", "I", "D", "=">>, 1)
                            /\ MatchAt(ParamsOf(blocks[k], <<"D", "T", "E", "N", "D">>), <<";",
                                    "T", "Z", "I", "D", "=">>, 1),
              EventBlocks(DocLines(icalContent.text)))

\* the document of an all-day event without description followed by a
\* timed event with one
C29_Witness ==
    /\ icalContent.generated
    /\ Len(events) = 2
    /\ events[1].id = 6 /\ events[1].event_time = Null /\ events[1].description = Null
    /\ events[2].id = 12 /\ events[2].event_time # Null /\ events[2].description # Null

-----------------------------------------------------------------------------
(* The claim on the feed endpoint *)

\* the storage calls of a request served to the end, in their order
StorageCalls == <<"exists", "updateLastAccessed", "findByUserHash">>

\* the storage call marked to throw has been made
FaultMet ==
    \E k \in 1..Len(storage.log) : storage.log[k] = storage.fault

\* C30: the feed endpoint checks in a fixed order and serves the calendar
\* only when all checks pass: a hash of invalid form gets 400 and no storage
\* call is made; a hash of the right form that no user has gets 404 and no
\* last-accessed time is updated; a document validateCalendar finds invalid
\* is never sent and the response is 500; only otherwise is the response
\* 200, of type text/calendar, with the generated document as body; an
\* exception on the way gives 500.
C30_FeedChecksInOrder ==
    /\ storage.log = SubSeq(StorageCalls, 1, Len(storage.log))
    /\ response.sent <=> pc = "done"
    /\ request.hash \in InvalidHashes =>
        /\ storage.log = <<>>
        /\ response.sent => response.status = 400
    /\ request.hash \in UnknownHashes =>
        /\ storage.touched = {}
        /\ Len(storage.log) <= 1
        /\ response.sent => response.status = (IF FaultMet THEN 500 ELSE 404)
    /\ (response.sent /\ FaultMet) => response.status = 500
    /\ (validation.done /\ ~validation.isValid) =>
        /\ response.status = 500
        /\ response.body # icalContent.text
    /\ (response.sent /\ request.hash = KnownHash /\ ~FaultMet) =>
        /\ validation.done
        /\ response.status = (IF validation.isValid THEN 200 ELSE 500)
    /\ (response.sent /\ response.status = 200) =>
        /\ request.hash = KnownHash
        /\ storage.log = StorageCalls
        /\ storage.touched = {KnownHash}
        /\ icalContent.generated /\ validation.done /\ validation.isValid
        /\ response.contentType = <<"t", "e", "x", "t", "/", "c", "a", "l", "e", "n", "d", "a",
                "r", ";", " ", "c", "h", "a", "r", "s", "e", "t", "=", "u", "t", "f", "-", "8">>
        /\ response.body = icalContent.text

\* a feed of two events served with 200
C30_Witness ==
    /\ response.sent
    /\ response.status = 200
    /\ Len(events) = 2
    /\ response.body = icalContent.text

====
